---- MODULE Spec2Model ----
(***************************************************************************)
(* market-edge: the paper-trade ledger (packages/shared/shared/db.py) and  *)
(* the Q-learning agent's exploration schedule                             *)
(* (packages/models/models/ql_agent.py).                                   *)
(*                                                                         *)
(* Prices are integers (whole currency units). Rates of the agent          *)
(* (epsilon, decay, min_exploration) are fixed-point numbers with          *)
(* RateScale units per 1.0; a product is rounded to the nearest unit, as   *)
(* a floating-point product is rounded to the nearest representable value. *)
(***************************************************************************)
EXTENDS Integers, Sequences, FiniteSets, TLC

VARIABLES
    trades,     \* table paper_trades: row i has trade_id i
    now,        \* the wall clock read by datetime.now()
    result,     \* outcome of the last ledger call (return value or error)
    executed,   \* history: every BUY/SELL that was executed, as requested
    agent,      \* one QLearningAgent object (its parameters and counters)
    agentCall,  \* the last agent method called, with the values it started from
    q_table,    \* the q_table attribute of that QLearningAgent object
    store,      \* table rl_model_states: the row of each stock_id, or NULL
    decisions,  \* table trade_decisions_log
    updates     \* number of update_q_value calls made so far (bounds the runs)

vars ==
    <<trades, now, result, executed, agent, agentCall, q_table, store, decisions, updates>>

ledgerVars == <<trades, now, result, executed>>
agentVars == <<agent, agentCall>>
tableVars == <<q_table, store, decisions, updates>>

-----------------------------------------------------------------------------
(* Bounds of the model *)

MaxTrades == 3
MaxQty == 2
MaxEpisodes == 3
MaxUpdates == 1
MaxEntries == 3
MaxDecisions == 2
MaxLearnCycles == 4
MaxCapCycles == 6
MaxMinutes == 70

Stocks == {1, 2}
Prices == {100, 105}
Quantities == 1..MaxQty
SellQuantities == 1..(MaxQty + 1)

\* a nullable column holds NULL or Some(value)
NULL == <<>>
Some(v) == <<v>>

-----------------------------------------------------------------------------
(* Generic helpers *)

Min(a, b) == IF a < b THEN a ELSE b
Max(a, b) == IF a > b THEN a ELSE b

RECURSIVE SumSeq(_, _)
\* sum of f over the elements of sequence s; f is a function on the elements
SumSeq(s, f) == IF s = <<>> THEN 0 ELSE f[Head(s)] + SumSeq(Tail(s), f)

RECURSIVE SumOver(_, _)
\* sum of f[i] for i in the finite set S
SumOver(S, f) ==
    IF S = {} THEN 0
    ELSE LET i == CHOOSE x \in S : TRUE IN f[i] + SumOver(S \ {i}, f)

-----------------------------------------------------------------------------
(* The ledger: db.py *)

\* INSERT ... VALUES (..., 'OPEN', executed_at): the row a BUY stores
BuyRow(id, stock_id, quantity, price, strategy, executed_at) ==
    [trade_id |-> id, stock_id |-> stock_id, action |-> "BUY",
     quantity |-> quantity, price |-> price, strategy |-> strategy,
     status |-> "OPEN", exit_price |-> NULL, exit_time |-> NULL,
     profit_loss |-> NULL, executed_at |-> executed_at]

\* INSERT ... VALUES (..., 'CLOSED', price, executed_at, realized_pnl, executed_at)
SellRow(id, stock_id, quantity, price, strategy, realized_pnl, executed_at) ==
    [trade_id |-> id, stock_id |-> stock_id, action |-> "SELL",
     quantity |-> quantity, price |-> price, strategy |-> strategy,
     status |-> "CLOSED", exit_price |-> Some(price),
     exit_time |-> Some(executed_at),
     profit_loss |-> Some(realized_pnl), executed_at |-> executed_at]

\* WHERE stock_id = %s AND action = 'BUY' AND status = 'OPEN'
OpenBuyIds(tr, stock_id) ==
    {i \in 1..Len(tr) : /\ tr[i].stock_id = stock_id
                        /\ tr[i].action = "BUY"
                        /\ tr[i].status = "OPEN"}

RECURSIVE OrderedBy(_, _)
\* ORDER BY executed_at ASC: every listing of the rows S in non-decreasing
\* executed_at; rows with equal executed_at come in any order
OrderedBy(tr, S) ==
    IF S = {} THEN {<<>>}
    ELSE UNION {
           {<<i>> \o rest : rest \in OrderedBy(tr, S \ {i})} :
           i \in {j \in S : \A k \in S : tr[j].executed_at <= tr[k].executed_at}}

RECURSIVE OrderedByDesc(_, _)
\* ORDER BY executed_at DESC
OrderedByDesc(tr, S) ==
    IF S = {} THEN {<<>>}
    ELSE UNION {
           {<<i>> \o rest : rest \in OrderedByDesc(tr, S \ {i})} :
           i \in {j \in S : \A k \in S : tr[j].executed_at >= tr[k].executed_at}}

\* variant of OpenBuys: the lots newest first (LIFO matching)
OpenBuysNewestFirst(tr, stock_id) == OrderedByDesc(tr, OpenBuyIds(tr, stock_id))

\* the result sets the SELECT of open BUY lots can return
OpenBuys(tr, stock_id) == OrderedBy(tr, OpenBuyIds(tr, stock_id))

\* total_open_qty = sum(buy['quantity'] for buy in open_buys)
TotalOpenQty(tr, open_buys) ==
    SumSeq(open_buys, [i \in 1..Len(tr) |-> tr[i].quantity])

\* variant of InsufficientPosition: no validation, every SELL is accepted
NoPositionCheck(quantity, total_open_qty) == FALSE

\* variant of InsufficientPosition: the comparison is off by one share
PositionCheckOffByOne(quantity, total_open_qty) == quantity > total_open_qty + 1

\* if quantity > total_open_qty: raise ValueError
InsufficientPosition(quantity, total_open_qty) == quantity > total_open_qty

\* qty_to_close = min(remaining_qty, buy_qty)
QtyToClose(remaining_qty, buy_qty) == Min(remaining_qty, buy_qty)

\* variant of LotPnl: the operands of the difference are swapped
LotPnlReversed(price, buy_price, qty_to_close) == (buy_price - price) * qty_to_close

\* pnl = (price - buy_price) * qty_to_close
LotPnl(price, buy_price, qty_to_close) == (price - buy_price) * qty_to_close

\* variant of UpdateLot: the full close also stores the lot's profit_loss
UpdateLotWithPnl(tr, id, qty_to_close, price, executed_at) ==
    IF qty_to_close = tr[id].quantity
    THEN [tr EXCEPT ![id].status = "CLOSED",
                    ![id].exit_price = Some(price),
                    ![id].exit_time = Some(executed_at),
                    ![id].profit_loss = Some((price - tr[id].price) * qty_to_close)]
    ELSE [tr EXCEPT ![id].quantity = @ - qty_to_close]

\* variant of UpdateLot: a partial close leaves the quantity of the lot
UpdateLotKeepingQuantity(tr, id, qty_to_close, price, executed_at) ==
    IF qty_to_close = tr[id].quantity
    THEN [tr EXCEPT ![id].status = "CLOSED",
                    ![id].exit_price = Some(price),
                    ![id].exit_time = Some(executed_at)]
    ELSE tr

\* the UPDATE of one matched lot: full close, or partial close
UpdateLot(tr, id, qty_to_close, price, executed_at) ==
    IF qty_to_close = tr[id].quantity
    THEN [tr EXCEPT ![id].status = "CLOSED",
                    ![id].exit_price = Some(price),
                    ![id].exit_time = Some(executed_at)]
    ELSE [tr EXCEPT ![id].quantity = @ - qty_to_close]

RECURSIVE MatchLots(_, _, _, _, _, _, _, _)
\* for buy in open_buys: ... ; k is the position in open_buys
MatchLots(tr, open_buys, k, remaining_qty, price, executed_at, realized_pnl, closed) ==
    IF k > Len(open_buys) \/ remaining_qty <= 0
    THEN [trades |-> tr, realized_pnl |-> realized_pnl, closed_trades |-> closed]
    ELSE LET id == open_buys[k]
             buy_qty == tr[id].quantity
             qty_to_close == QtyToClose(remaining_qty, buy_qty)
         IN MatchLots(UpdateLot(tr, id, qty_to_close, price, executed_at),
                      open_buys, k + 1, remaining_qty - qty_to_close,
                      price, executed_at,
                      realized_pnl + LotPnl(price, tr[id].price, qty_to_close),
                      Append(closed, id))

\* insert_paper_trade(action='SELL'): the outcome for one result of the SELECT.
\* status "error": ValueError was raised and the transaction rolled back
SellOutcome(tr, stock_id, quantity, price, strategy, executed_at, open_buys) ==
    IF InsufficientPosition(quantity, TotalOpenQty(tr, open_buys))
    THEN [status |-> "error", trades |-> tr, trade_id |-> 0,
          quantity |-> quantity, realized_pnl |-> 0, closed_trades |-> <<>>]
    ELSE LET m == MatchLots(tr, open_buys, 1, quantity, price, executed_at, 0, <<>>)
             id == Len(tr) + 1
         IN [status |-> "ok",
             trades |-> Append(m.trades,
                               SellRow(id, stock_id, quantity, price, strategy,
                                       m.realized_pnl, executed_at)),
             trade_id |-> id,
             quantity |-> quantity,
             realized_pnl |-> m.realized_pnl,
             closed_trades |-> m.closed_trades]

\* insert_paper_trade(action='SELL'): every outcome the call can have
InsertSell(tr, stock_id, quantity, price, strategy, executed_at) ==
    {SellOutcome(tr, stock_id, quantity, price, strategy, executed_at, open_buys) :
       open_buys \in OpenBuys(tr, stock_id)}

\* insert_paper_trade(action='BUY'): the outcome of the call
InsertBuy(tr, stock_id, quantity, price, strategy, executed_at) ==
    [status |-> "ok",
     trades |-> Append(tr, BuyRow(Len(tr) + 1, stock_id, quantity, price,
                                  strategy, executed_at)),
     trade_id |-> Len(tr) + 1,
     quantity |-> quantity,
     realized_pnl |-> 0,
     closed_trades |-> <<>>]

\* variant of OpenQuantity: the status filter is missing
OpenQuantityAnyStatus(tr, stock_id) ==
    SumOver({i \in 1..Len(tr) : tr[i].stock_id = stock_id /\ tr[i].action = "BUY"},
            [i \in 1..Len(tr) |-> tr[i].quantity])

\* SELECT COALESCE(SUM(quantity), 0) ... WHERE action = 'BUY' AND status = 'OPEN'
OpenQuantity(tr, stock_id) ==
    SumOver(OpenBuyIds(tr, stock_id), [i \in 1..Len(tr) |-> tr[i].quantity])

\* close_position(stock_id, exit_price, exit_time): every outcome of the call.
\* status "noop": nothing was open and 0.0 was returned
ClosePositionOutcomes(tr, stock_id, exit_price, exit_time) ==
    LET total_qty == OpenQuantity(tr, stock_id)
    IN IF total_qty <= 0
       THEN {[status |-> "noop", trades |-> tr, trade_id |-> 0,
              quantity |-> 0, realized_pnl |-> 0, closed_trades |-> <<>>]}
       ELSE InsertSell(tr, stock_id, total_qty, exit_price, "EOD_SETTLEMENT",
                       exit_time)


\* what the last call was asked and what it returned
Outcome(op, stock_id, o) ==
    [op |-> op, stock_id |-> stock_id, quantity |-> o.quantity,
     status |-> o.status, trade_id |-> o.trade_id,
     realized_pnl |-> o.realized_pnl, closed_trades |-> o.closed_trades]

\* the history of executed orders after a call with outcome o
Record(action, stock_id, price, o) ==
    IF o.status = "ok"
    THEN Append(executed, [action |-> action, stock_id |-> stock_id,
                           quantity |-> o.quantity, price |-> price,
                           realized_pnl |-> o.realized_pnl])
    ELSE executed

\* datetime.now() for a row that is stored: each stored row is stamped later
\* than the rows stored before it (the calls are minutes apart and the clock
\* has microsecond resolution)
Clock == now + 1

\* one call of a ledger function with outcome o
LedgerCall(op, action, stock_id, price, o) ==
    /\ Len(trades) < MaxTrades
    /\ trades' = o.trades
    /\ now' = IF o.status = "ok" THEN Clock ELSE now
    /\ result' = Outcome(op, stock_id, o)
    /\ executed' = Record(action, stock_id, price, o)
    /\ UNCHANGED <<agentVars, tableVars>>

\* insert_paper_trade(stock_id, action, quantity, price), strategy 'RL_AGENT'
insert_paper_trade(stock_id, action, quantity, price) ==
    IF action = "BUY"
    THEN LedgerCall("BUY", "BUY", stock_id, price,
                    InsertBuy(trades, stock_id, quantity, price, "RL_AGENT", Clock))
    ELSE \E o \in InsertSell(trades, stock_id, quantity, price, "RL_AGENT", Clock) :
           LedgerCall("SELL", "SELL", stock_id, price, o)

\* close_position(stock_id, exit_price)
close_position(stock_id, exit_price) ==
    \E o \in ClosePositionOutcomes(trades, stock_id, exit_price, Clock) :
      LedgerCall("CLOSE", "SELL", stock_id, exit_price, o)

\* paper_bankroll.balance as check_paper_bankroll_consistency recomputes it:
\* 100000.00 - total_spent + total_received over the rows of paper_trades
StartingCash == 100000

Balance(tr) ==
    LET rows(a) == {i \in 1..Len(tr) : tr[i].action = a}
        amount == [i \in 1..Len(tr) |-> tr[i].quantity * tr[i].price]
    IN StartingCash - SumOver(rows("BUY"), amount) + SumOver(rows("SELL"), amount)

\* get_active_positions(): one row per stock with open rows and quantity > 0.
\* avg_entry_price is AVG(price) over the rows, kept as the exact fraction
\* <<sum of prices, number of rows>>
get_active_positions(tr) ==
    LET open(s) == {i \in 1..Len(tr) : tr[i].stock_id = s /\ tr[i].status = "OPEN"}
        buys(s) == {i \in open(s) : tr[i].action = "BUY"}
        signed == [i \in 1..Len(tr) |->
                     IF tr[i].action = "BUY" THEN tr[i].quantity
                     ELSE 0 - tr[i].quantity]
        price == [i \in 1..Len(tr) |-> tr[i].price]
    IN {[stock_id |-> s,
         quantity |-> SumOver(open(s), signed),
         avg_entry_price |-> <<SumOver(buys(s), price), Cardinality(buys(s))>>] :
          s \in {x \in Stocks : open(x) # {} /\ SumOver(open(x), signed) > 0}}

-----------------------------------------------------------------------------
(* The agent: ql_agent.py *)

\* units per 1.0 of a rate (epsilon, decay, min_exploration)
RateScale == 100 * 100

\* a floating-point product, rounded to the nearest representable value
MulRate(a, b) == (a * b + RateScale \div 2) \div RateScale

\* QLearningAgent.__init__: the parameters are stored as given
NewAgent(alpha, gamma, epsilon, decay, min_epsilon) ==
    [learning_rate |-> alpha,
     discount_factor |-> gamma,
     exploration_rate |-> epsilon,
     exploration_decay |-> decay,
     min_exploration |-> min_epsilon,
     total_episodes |-> 0,
     total_rewards |-> 0]

\* defaults of __init__: 0.1, 0.95, 1.0, 0.99, 0.01
DefaultLearningRate == 1000
DefaultDiscountFactor == 9500
DefaultExplorationRate == 10000
DefaultExplorationDecay == 9900
DefaultMinExploration == 100

DefaultAgent ==
    NewAgent(DefaultLearningRate, DefaultDiscountFactor, DefaultExplorationRate,
             DefaultExplorationDecay, DefaultMinExploration)

\* variant of decay_exploration: the floor min_exploration is not applied
decay_exploration_nofloor(a) ==
    [a EXCEPT !.exploration_rate = MulRate(a.exploration_rate, a.exploration_decay)]

\* exploration_rate = max(exploration_rate * exploration_decay, min_exploration)
decay_exploration(a) ==
    [a EXCEPT !.exploration_rate =
        Max(MulRate(a.exploration_rate, a.exploration_decay), a.min_exploration)]

\* total_episodes += 1; decay_exploration()
finish_episode(a) ==
    decay_exploration([a EXCEPT !.total_episodes = @ + 1])

\* decay = max(min(decay, 0.999), 0.5)
DecayCeiling == 9990
DecayFloor == 5000

set_exploration_decay(a, decay) ==
    [a EXCEPT !.exploration_decay = Max(Min(decay, DecayCeiling), DecayFloor)]

\* values an agent can be constructed with (load_or_create_agent reads them
\* from the environment without validation)
ExplorationRates == {0, 50, 100, 101, 5000, 10000}
MinExplorations == {100, 1000}
ExplorationDecays == {5000, 9800, 9900, 10100}
DecayTargets == {4000, 9800, 9900, 9950, 12000}

AgentCall(op, arg) == [op |-> op, before |-> agent, arg |-> arg]

FinishEpisode ==
    /\ agent.total_episodes < MaxEpisodes
    /\ agent' = finish_episode(agent)
    /\ agentCall' = AgentCall("finish_episode", NULL)
    /\ UNCHANGED <<ledgerVars, tableVars>>

SetExplorationDecay(decay) ==
    /\ agent' = set_exploration_decay(agent, decay)
    /\ agentCall' = AgentCall("set_exploration_decay", decay)
    /\ UNCHANGED <<ledgerVars, tableVars>>

-----------------------------------------------------------------------------
(* The Q-table of the agent (ql_agent.py) and its persistence (db.py).      *)
(* Q-values and rewards are fixed-point numbers with RewardScale units per  *)
(* 1.0. A Python value used as a key of the table is a record               *)
(* [kind, items]; the text of a JSON object key is a record                 *)
(* [syntax, value]: "literal" when ast.literal_eval parses it (to value),   *)
(* "invalid" when literal_eval raises ValueError or SyntaxError.            *)

RewardScale == 1000

EmptyTable == <<>>

\* the class attribute ACTIONS of QLearningAgent, in the order of the list
AgentActions == <<"BUY", "SELL", "HOLD">>
ActionSet == {AgentActions[i] : i \in 1..Len(AgentActions)}

PyTuple(items) == [kind |-> "tuple", items |-> items]
PyList(items) == [kind |-> "list", items |-> items]
PyInt == [kind |-> "int", items |-> <<>>]

\* TradingState.to_tuple(): the seven fields in declaration order
to_tuple(state) ==
    PyTuple(<<state.rsi_category, state.ma_position, state.vwap_position,
              state.position_status, state.price_momentum, state.cash_bucket,
              state.exposure_bucket>>)

\* a dict with 0.0 for every action of the list
ZeroActions == [a \in ActionSet |-> 0]

\* variant of Materialized: only BUY is created for an unseen state
MaterializedBuyOnly(qt, state_tuple) ==
    [k \in DOMAIN qt \cup {state_tuple} |->
       IF k \in DOMAIN qt THEN qt[k] ELSE [a \in {"BUY"} |-> 0]]

\* if state_tuple not in self.q_table: self.q_table[state_tuple] = zeros
Materialized(qt, state_tuple) ==
    [k \in DOMAIN qt \cup {state_tuple} |->
       IF k \in DOMAIN qt THEN qt[k] ELSE ZeroActions]

\* get_q_value(state, action): the value returned; the table it leaves is
\* Materialized(qt, state.to_tuple())
get_q_value(qt, state, action) == Materialized(qt, to_tuple(state))[to_tuple(state)][action]

\* variant of FirstMax: the last key whose value is maximal
LastMax(q_values) ==
    LET best == CHOOSE i \in 1..Len(AgentActions) :
               /\ \A j \in 1..Len(AgentActions) : q_values[AgentActions[j]] <= q_values[AgentActions[i]]
               /\ \A j \in (i + 1)..Len(AgentActions) : q_values[AgentActions[j]] < q_values[AgentActions[i]]
    IN  AgentActions[best]

\* max(q_values, key=q_values.get) over a dict built in the order of the list:
\* the first key whose value is maximal
FirstMax(q_values) ==
    LET best == CHOOSE i \in 1..Len(AgentActions) :
               /\ \A j \in 1..Len(AgentActions) : q_values[AgentActions[j]] <= q_values[AgentActions[i]]
               /\ \A j \in 1..(i - 1) : q_values[AgentActions[j]] < q_values[AgentActions[i]]
    IN  AgentActions[best]

\* get_best_action(state): the action returned; the table it leaves is
\* Materialized(qt, state.to_tuple())
get_best_action(qt, state) ==
    FirstMax([a \in ActionSet |-> get_q_value(qt, state, a)])

\* choose_action(state, force_exploit): draw is the value of random.random(),
\* pick the value of random.choice of the list; the random branch does not read
\* the table
choose_action(qt, epsilon, state, force_exploit, draw, pick) ==
    IF force_exploit
    THEN [action |-> get_best_action(qt, state), was_random |-> FALSE,
          q_table |-> Materialized(qt, to_tuple(state))]
    ELSE IF draw < epsilon
         THEN [action |-> pick, was_random |-> TRUE, q_table |-> qt]
         ELSE [action |-> get_best_action(qt, state), was_random |-> FALSE,
               q_table |-> Materialized(qt, to_tuple(state))]

MaxOf(S) == CHOOSE x \in S : \A y \in S : y <= x

\* variant of TargetQ: the future value is dropped
TargetQNoFuture(a, qt, reward, next_state, done) == reward

\* target_q of update_q_value, read from the table after get_q_value(state)
TargetQ(a, qt, reward, next_state, done) ==
    IF done
    THEN reward
    ELSE reward + MulRate(a.discount_factor,
                          MaxOf({get_q_value(qt, next_state, x) : x \in ActionSet}))

\* update_q_value(state, action, reward, next_state, done): the agent and the
\* table it leaves
update_q_value(a, qt, state, action, reward, next_state, done) ==
    LET qt1 == Materialized(qt, to_tuple(state))
        current_q == qt1[to_tuple(state)][action]
        qt2 == IF done THEN qt1 ELSE Materialized(qt1, to_tuple(next_state))
        target_q == TargetQ(a, qt1, reward, next_state, done)
        new_q == current_q + MulRate(a.learning_rate, target_q - current_q)
    IN  [agent |-> [a EXCEPT !.total_rewards = @ + reward],
         q_table |-> [qt2 EXCEPT ![to_tuple(state)][action] = new_q]]

\* str(k) of a key, and ast.literal_eval of a parseable text
Str(k) == [syntax |-> "literal", value |-> k]
literal_eval(state_str) == state_str.value

\* dict.get(key, default) on an entry that may be absent
Get(entry, default) == IF entry = NULL THEN default ELSE entry[1]

\* QLearningAgent.save(): keys are written with str()
save(a, qt) ==
    [q_table |-> [t \in {Str(k) : k \in DOMAIN qt} |-> qt[literal_eval(t)]],
     learning_rate |-> Some(a.learning_rate),
     discount_factor |-> Some(a.discount_factor),
     exploration_rate |-> Some(a.exploration_rate),
     exploration_decay |-> Some(a.exploration_decay),
     min_exploration |-> Some(a.min_exploration),
     total_episodes |-> Some(a.total_episodes),
     total_rewards |-> Some(a.total_rewards)]

\* variant of Hyperparameters: exploration_decay and min_exploration are
\* written too
HyperparametersAll(agent_data) ==
    [learning_rate |-> Get(agent_data.learning_rate, DefaultLearningRate),
     discount_factor |-> Get(agent_data.discount_factor, DefaultDiscountFactor),
     exploration_rate |-> Get(agent_data.exploration_rate, DefaultExplorationRate),
     exploration_decay |-> Get(agent_data.exploration_decay, DefaultExplorationDecay),
     min_exploration |-> Get(agent_data.min_exploration, DefaultMinExploration),
     total_episodes |-> Get(agent_data.total_episodes, 0),
     total_rewards |-> Get(agent_data.total_rewards, 0)]

\* the hyperparameters column written by save_q_table
Hyperparameters(agent_data) ==
    LET total_episodes == Get(agent_data.total_episodes, 0)
        total_rewards == Get(agent_data.total_rewards, 0)
        n == Max(total_episodes, 1)
    IN  [learning_rate |-> Get(agent_data.learning_rate, DefaultLearningRate),
         discount_factor |-> Get(agent_data.discount_factor, DefaultDiscountFactor),
         exploration_rate |-> Get(agent_data.exploration_rate, DefaultExplorationRate),
         total_episodes |-> total_episodes,
         total_rewards |-> total_rewards,
         avg_reward |-> (2 * total_rewards + n) \div (2 * n)]

\* save_q_table(stock_id, agent_data): upsert of the row of stock_id
save_q_table(st, stock_id, agent_data) ==
    [st EXCEPT ![stock_id] =
        [format |-> "split",
         q_table |-> agent_data.q_table,
         hyperparameters |-> Some(Hyperparameters(agent_data))]]

\* load_q_table(stock_id): None (NULL) when there is no row; a row whose
\* q_table column holds a full agent state (format "full") is returned as it
\* is; otherwise the dict is rebuilt from the two columns
load_q_table(st, stock_id) ==
    IF st[stock_id] = NULL THEN NULL
    ELSE IF st[stock_id].format = "full" THEN Some(st[stock_id].q_table)
    ELSE LET hp == st[stock_id].hyperparameters
             has == hp # NULL
         IN  Some([q_table |-> st[stock_id].q_table,
                   learning_rate |->
                     Some(IF has THEN hp[1].learning_rate ELSE DefaultLearningRate),
                   discount_factor |->
                     Some(IF has THEN hp[1].discount_factor ELSE DefaultDiscountFactor),
                   exploration_rate |->
                     Some(IF has THEN hp[1].exploration_rate ELSE DefaultExplorationRate),
                   exploration_decay |-> NULL,
                   min_exploration |-> NULL,
                   total_episodes |-> Some(IF has THEN hp[1].total_episodes ELSE 0),
                   total_rewards |-> Some(IF has THEN hp[1].total_rewards ELSE 0)])

\* state[0] of _migrate_old_states raises for a key that cannot be indexed
\* (an int: TypeError) or is empty (IndexError)
HasFirst(k) == k.kind \in {"tuple", "list"} /\ Len(k.items) > 0
First(k) == k.items[1]

\* _migrate_old_states(): the table it leaves
MigratedKeys(qt) ==
    UNION {IF First(k) = "NEUTRAL"
           THEN {PyTuple(<<nb>> \o Tail(k.items)) : nb \in {"WEAK", "NEUTRAL", "STRONG"}}
           ELSE {k} : k \in DOMAIN qt}

LegacyKey(qt, k) ==
    IF k \in DOMAIN qt /\ First(k) # "NEUTRAL"
    THEN k
    ELSE PyTuple(<<"NEUTRAL">> \o Tail(k.items))

AlreadyMigrated(qt) ==
    LET rsi_values == {First(k) : k \in DOMAIN qt}
    IN  "WEAK" \in rsi_values \/ "STRONG" \in rsi_values

\* variant of _migrate_old_states: NEUTRAL is renamed to WEAK and STRONG only
MigrateDropNeutral(qt) ==
    IF DOMAIN qt = {} \/ AlreadyMigrated(qt) THEN qt
    ELSE [k \in MigratedKeys(qt) \ {j \in MigratedKeys(qt) : First(j) = "NEUTRAL"} |->
            qt[LegacyKey(qt, k)]]

\* variant of _migrate_old_states: no guard, and the new bucket is put in
\* front of the whole key
MigratePrepending(qt) ==
    [k \in UNION {IF First(j) = "NEUTRAL"
                  THEN {PyTuple(<<nb>> \o j.items) : nb \in {"WEAK", "NEUTRAL", "STRONG"}}
                  ELSE {j} : j \in DOMAIN qt} |->
       IF k \in DOMAIN qt /\ First(k) # "NEUTRAL" THEN qt[k] ELSE qt[PyTuple(Tail(k.items))]]

_migrate_old_states(qt) ==
    IF DOMAIN qt = {} \/ AlreadyMigrated(qt) THEN qt
    ELSE [k \in MigratedKeys(qt) |-> qt[LegacyKey(qt, k)]]

\* the loop of load() over data['q_table']: a text that literal_eval cannot
\* parse is skipped; a parsed key that is not hashable (a list) raises
\* TypeError, which the loop does not catch
Parseable(data) == {t \in DOMAIN data.q_table : t.syntax = "literal"}
Unhashable(data) == {t \in Parseable(data) : literal_eval(t).kind = "list"}
Restored(data) ==
    [k \in {literal_eval(t) : t \in Parseable(data)} |-> data.q_table[Str(k)]]

\* QLearningAgent.load(data): the agent and table returned, or the exception
load(data) ==
    LET a == NewAgent(data.learning_rate[1], data.discount_factor[1],
                      data.exploration_rate[1],
                      Get(data.exploration_decay, DefaultExplorationDecay),
                      Get(data.min_exploration, DefaultMinExploration))
        restored == [a EXCEPT !.total_episodes = data.total_episodes[1],
                              !.total_rewards = data.total_rewards[1]]
    IN  IF Unhashable(data) # {}
        THEN [status |-> "TypeError", agent |-> NULL, q_table |-> NULL]
        ELSE IF \E k \in DOMAIN Restored(data) : ~HasFirst(k)
        THEN [status |-> IF \E k \in DOMAIN Restored(data) : k.kind = "int"
                         THEN "TypeError" ELSE "IndexError",
              agent |-> NULL, q_table |-> NULL]
        ELSE [status |-> "ok", agent |-> restored,
              q_table |-> _migrate_old_states(Restored(data))]

\* TradingState(...): the dataclass
TradingState(rsi, ma, vwap, position, momentum, cash, exposure) ==
    [rsi_category |-> rsi, ma_position |-> ma, vwap_position |-> vwap,
     position_status |-> position, price_momentum |-> momentum,
     cash_bucket |-> cash, exposure_bucket |-> exposure]

\* inputs of the agent's methods
RsiInputs == {"OVERSOLD", "NEUTRAL"}
StateInputs == {TradingState(r, "AT", "AT", "FLAT", "FLAT", "HIGH", "NONE") : r \in RsiInputs}
RewardInputs == {2 * RewardScale}
DrawInputs == {0, RateScale - 1}
LearningRates == {RateScale \div 2}
SnapshotStocks == {1}
AdaptiveDecays == {9800}

GetQValue(state, action) ==
    /\ q_table' = Materialized(q_table, to_tuple(state))
    /\ agentCall' = AgentCall("get_q_value", [state |-> state])
    /\ UNCHANGED <<ledgerVars, agent, store, decisions, updates>>

GetBestAction(state) ==
    /\ q_table' = Materialized(q_table, to_tuple(state))
    /\ agentCall' = AgentCall("get_best_action", [state |-> state])
    /\ UNCHANGED <<ledgerVars, agent, store, decisions, updates>>

ChooseAction(state, force_exploit, draw, pick) ==
    LET out == choose_action(q_table, agent.exploration_rate, state, force_exploit,
                             draw, pick)
    IN  /\ q_table' = out.q_table
        /\ agentCall' = AgentCall("choose_action",
                                  [state |-> state, force_exploit |-> force_exploit,
                                   ret |-> <<out.action, out.was_random>>])
        /\ UNCHANGED <<ledgerVars, agent, store, decisions, updates>>

UpdateQValue(state, action, reward, next_state, done) ==
    LET out == update_q_value(agent, q_table, state, action, reward, next_state, done)
    IN  /\ updates < MaxUpdates
        /\ agent' = out.agent
        /\ q_table' = out.q_table
        /\ updates' = updates + 1
        /\ agentCall' = AgentCall("update_q_value",
                                  [state |-> state, action |-> action, reward |-> reward,
                                   next_state |-> next_state, done |-> done])
        /\ UNCHANGED <<ledgerVars, store, decisions>>

\* save_q_table(stock_id, agent.save())
Save(stock_id) ==
    /\ store' = save_q_table(store, stock_id, save(agent, q_table))
    /\ agentCall' = AgentCall("save", [stock_id |-> stock_id])
    /\ UNCHANGED <<ledgerVars, agent, q_table, decisions, updates>>

\* agent = QLearningAgent.load(load_q_table(stock_id)); the variable keeps the
\* object it had when load raises
Load(stock_id) ==
    /\ load_q_table(store, stock_id) # NULL
    /\ LET out == load(load_q_table(store, stock_id)[1])
       IN  /\ agent' = IF out.status = "ok" THEN out.agent ELSE agent
           /\ q_table' = IF out.status = "ok" THEN out.q_table ELSE q_table
           /\ agentCall' = AgentCall("load", [stock_id |-> stock_id, status |-> out.status])
    /\ UNCHANGED <<ledgerVars, store, decisions, updates>>

-----------------------------------------------------------------------------
(* The decision cycle (rl_trading_agent.py) and the settlement run          *)
(* (settle_trades.py). Money is in whole currency units; a ratio of two     *)
(* amounts is compared by cross-multiplication.                             *)

\* n / d > an / ad and n / d < an / ad for d # 0 and ad > 0
RatioGt(n, d, an, ad) == IF d > 0 THEN n * ad > an * d ELSE n * ad < an * d
RatioLt(n, d, an, ad) == IF d > 0 THEN n * ad < an * d ELSE n * ad > an * d

\* the percentage differences of from_market_data divide by sma, vwap and
\* prev_price
DivisionByZero(sma, vwap, prev_price) == sma = 0 \/ vwap = 0 \/ prev_price = 0

\* variant of the RSI bucket with the lower bounds open
RsiCategoryOpen(rsi) ==
    IF rsi <= 30 THEN "OVERSOLD" ELSE IF rsi <= 45 THEN "WEAK"
    ELSE IF rsi <= 55 THEN "NEUTRAL" ELSE IF rsi <= 70 THEN "STRONG"
    ELSE "OVERBOUGHT"

RsiCategory(rsi) ==
    IF rsi < 30 THEN "OVERSOLD" ELSE IF rsi < 45 THEN "WEAK"
    ELSE IF rsi < 55 THEN "NEUTRAL" ELSE IF rsi < 70 THEN "STRONG"
    ELSE "OVERBOUGHT"

\* variant of the position bucket with the signs exchanged
PositionStatusSwapped(position_quantity) ==
    IF position_quantity > 0 THEN "SHORT"
    ELSE IF position_quantity < 0 THEN "LONG" ELSE "FLAT"

PositionStatus(position_quantity) ==
    IF position_quantity > 0 THEN "LONG"
    ELSE IF position_quantity < 0 THEN "SHORT" ELSE "FLAT"

\* cash_ratio >= k / 10 with cash_ratio = normalized_cash / max(starting_cash, 1e-9)
CashRatioAtLeast(normalized_cash, starting_cash, k) ==
    IF starting_cash > 0 THEN normalized_cash * 10 >= k * starting_cash
    ELSE normalized_cash > 0

\* the exposure bucket; total_exposure is the exact fraction
\* <<numerator, denominator>> with a positive denominator
ExposureBucket(total_exposure, starting_cash) ==
    LET exposure_num == Max(total_exposure[1], 0)
        exposure_den == total_exposure[2]
    IN  IF starting_cash <= 0
        THEN IF exposure_num = 0 THEN "NONE" ELSE "OVEREXTENDED"
        ELSE IF exposure_num * 20 <= starting_cash * exposure_den THEN "NONE"
        ELSE IF exposure_num * 2 < starting_cash * exposure_den THEN "LIGHT"
        ELSE IF exposure_num <= starting_cash * exposure_den THEN "HEAVY"
        ELSE "OVEREXTENDED"

\* TradingState.from_market_data: status "ZeroDivisionError" when a
\* percentage difference divides by zero, else the state
from_market_data(rsi, price, sma, vwap, position_quantity, prev_price, cash_available, total_exposure, starting_cash) ==
    LET normalized_cash == Max(cash_available, 0)
    IN  IF DivisionByZero(sma, vwap, prev_price)
        THEN [status |-> "ZeroDivisionError", state |-> NULL]
        ELSE [status |-> "ok",
              state |-> TradingState(
                RsiCategory(rsi),
                IF RatioGt(price - sma, sma, 1, 200) THEN "ABOVE"
                ELSE IF RatioLt(price - sma, sma, 0 - 1, 200) THEN "BELOW" ELSE "AT",
                IF RatioGt(price - vwap, vwap, 1, 200) THEN "ABOVE"
                ELSE IF RatioLt(price - vwap, vwap, 0 - 1, 200) THEN "BELOW" ELSE "AT",
                PositionStatus(position_quantity),
                IF RatioGt(price - prev_price, prev_price, 1, 1000) THEN "UP"
                ELSE IF RatioLt(price - prev_price, prev_price, 0 - 1, 1000) THEN "DOWN"
                ELSE "FLAT",
                IF CashRatioAtLeast(normalized_cash, starting_cash, 7) THEN "HIGH"
                ELSE IF CashRatioAtLeast(normalized_cash, starting_cash, 3) THEN "MEDIUM"
                ELSE "LOW",
                ExposureBucket(total_exposure, starting_cash))]

\* MAX_POSITION_SIZE, the lot of a BUY (min(5, ...)) and STARTING_CASH
MAX_POSITION_SIZE == 25
LotSize == 5
STARTING_CASH == 100000

\* the sum of abs(qty) * avg_price over the positions, as an exact fraction
\* over the product of the row counts
RECURSIVE ExposureOf(_)
ExposureOf(positions) ==
    IF positions = {} THEN <<0, 1>>
    ELSE LET pos == CHOOSE x \in positions : TRUE
             rest == ExposureOf(positions \ {pos})
             avg == pos.avg_entry_price
         IN  <<rest[1] * avg[2] + pos.quantity * avg[1] * rest[2], rest[2] * avg[2]>>

\* get_current_state(symbol, stock_id) once the price bars and indicators
\* were read: market holds the indicators and the last two closes. The rows
\* of get_active_positions have no last_trade_time, so position_age_minutes
\* stays 0.0. unrealized_pnl is the exact fraction <<numerator, denominator>>
get_current_state(tr, stock_id, market) ==
    LET positions == get_active_positions(tr)
        cash_balance == Balance(tr)
        total_exposure == ExposureOf(positions)
        mine == {pos \in positions : pos.stock_id = stock_id}
        position_qty == IF mine = {} THEN 0 ELSE (CHOOSE pos \in mine : TRUE).quantity
        avg_entry == IF mine = {} THEN <<0, 1>> ELSE (CHOOSE pos \in mine : TRUE).avg_entry_price
        unrealized_pnl == IF position_qty > 0
                          THEN <<(market.price * avg_entry[2] - avg_entry[1]) * position_qty,
                                 avg_entry[2]>>
                          ELSE <<0, 1>>
        discretized == from_market_data(market.rsi, market.price, market.sma, market.vwap,
                                        position_qty, market.prev_price, cash_balance,
                                        total_exposure, STARTING_CASH)
    IN  [status |-> discretized.status,
         state |-> discretized.state,
         market_data |->
           [price |-> market.price, prev_price |-> market.prev_price,
            position_qty |-> position_qty, avg_entry_price |-> avg_entry,
            unrealized_pnl |-> unrealized_pnl,
            cash_balance |-> cash_balance, position_age_minutes |-> 0]]

\* a quotient of integers rounded to the nearest unit
RoundDiv(a, b) == (2 * a + b) \div (2 * b)

\* variant of Clamp that lets every value through
Unclamped(x, lo, hi) == x

Clamp(x, lo, hi) == Max(Min(x, hi), lo)

\* QUICK_EXIT_THRESHOLD_MINUTES, LINGERING_THRESHOLD_MINUTES and, in units of
\* RewardScale, QUICK_EXIT_BONUS and LINGERING_PENALTY_PER_BLOCK
QUICK_EXIT_THRESHOLD_MINUTES == 10
LINGERING_THRESHOLD_MINUTES == 30
QUICK_EXIT_BONUS == 50
LINGERING_PENALTY_PER_BLOCK == 20

\* variant of the guard of calculate_reward: an order that was not executed
\* is rewarded like an executed one
NotExecutedIgnored(was_executed) == FALSE

\* if not executed: return 0.0
NotExecuted(was_executed) == ~was_executed

\* variant of QuickExit with the threshold excluded
QuickExitBeforeThreshold(realized_pnl, age) ==
    realized_pnl > 0 /\ age < QUICK_EXIT_THRESHOLD_MINUTES

\* realized_pnl > 0 and position_age_minutes <= QUICK_EXIT_THRESHOLD_MINUTES
QuickExit(realized_pnl, age) ==
    realized_pnl > 0 /\ age <= QUICK_EXIT_THRESHOLD_MINUTES

\* calculate_reward(action, executed, realized_pnl, state, market_data), in
\* units of RewardScale
calculate_reward(action, was_executed, realized_pnl, state, market_data) ==
    LET low == state.cash_bucket = "LOW"
        heavy == state.exposure_bucket \in {"HEAVY", "OVEREXTENDED"}
        age == market_data.position_age_minutes
        qty == market_data.position_qty
        unrealized_pnl == market_data.unrealized_pnl
        change == RoundDiv((market_data.price - market_data.prev_price) * RewardScale,
                           market_data.prev_price)
    IN  IF action = "HOLD"
        THEN 0 - 5 - (IF low THEN 5 ELSE 0) - (IF heavy THEN 5 ELSE 0)
             + (IF qty > 0
                THEN Clamp(change, 0 - 20, 20)
                     + (IF unrealized_pnl[1] # 0
                        THEN Clamp(RoundDiv(unrealized_pnl[1] * RewardScale,
                                            unrealized_pnl[2] * 1000),
                                   0 - 50, 50)
                        ELSE 0)
                ELSE 0)
        ELSE IF NotExecuted(was_executed) THEN 0
        ELSE IF action = "BUY"
        THEN 20 - (IF low THEN 10 ELSE 0) - (IF heavy THEN 20 ELSE 0)
        ELSE realized_pnl * RewardScale
             + (IF QuickExit(realized_pnl, age) THEN QUICK_EXIT_BONUS ELSE 0)
             - (IF realized_pnl < 0 /\ age >= LINGERING_THRESHOLD_MINUTES
                THEN LINGERING_PENALTY_PER_BLOCK
                     * (age \div Max(LINGERING_THRESHOLD_MINUTES \div 3, 1))
                ELSE 0)
             + (IF low THEN 20 ELSE 0) + (IF heavy THEN 20 ELSE 0)

\* variant of get_adaptive_decay_rate without the slow band
AdaptiveDecayTwoBands(win_rate_percent) ==
    IF win_rate_percent[1] >= 50 * win_rate_percent[2] THEN 9800 ELSE 9900

\* get_adaptive_decay_rate(win_rate_percent): 0.98, 0.995 or 0.99. The
\* argument is the exact fraction <<numerator, denominator>>
get_adaptive_decay_rate(win_rate_percent) ==
    IF win_rate_percent[1] >= 50 * win_rate_percent[2] THEN 9800
    ELSE IF win_rate_percent[1] <= 30 * win_rate_percent[2] THEN 9950
    ELSE 9900

\* get_paper_bankroll()['win_rate']: winning_trades / max(total_trades, 1),
\* as an exact fraction
bankroll_win_rate(winning_trades, total_trades) == <<winning_trades, Max(total_trades, 1)>>

\* the win rate trade_single_stock hands to get_adaptive_decay_rate:
\* stock_win_rate if it is not None, else portfolio_win_rate
DecayWinRate(stock_win_rate, portfolio_win_rate) ==
    IF stock_win_rate # NULL THEN stock_win_rate[1] ELSE portfolio_win_rate

\* get_current_state raises before it reads the ledger: fewer than 50 price
\* bars, or an indicator is missing
MinBars == 50
RequiredIndicators == {"RSI", "SMA_50", "VWAP"}
InsufficientHistory(market) ==
    market.bars < MinBars \/ ~(RequiredIndicators \subseteq market.indicators)

\* the hyperparameters load_or_create_agent reads from the environment,
\* when no variable is set: 0.1, 0.95, 1.0, 0.99, 0.01
DefaultEnvironment ==
    [LEARNING_RATE |-> DefaultLearningRate, DISCOUNT_FACTOR |-> DefaultDiscountFactor,
     EXPLORATION_RATE |-> DefaultExplorationRate,
     EXPLORATION_DECAY |-> DefaultExplorationDecay,
     MIN_EXPLORATION |-> DefaultMinExploration]

\* load_or_create_agent(stock_id): the agent of the row, or a new agent with
\* the hyperparameters of the environment env
load_or_create_agent(st, stock_id, env) ==
    IF load_q_table(st, stock_id) = NULL
    THEN [status |-> "ok",
          agent |-> NewAgent(env.LEARNING_RATE, env.DISCOUNT_FACTOR, env.EXPLORATION_RATE,
                             env.EXPLORATION_DECAY, env.MIN_EXPLORATION),
          q_table |-> EmptyTable]
    ELSE load(load_q_table(st, stock_id)[1])

\* one row of trade_decisions_log
DecisionRow(stock_id, action, was_executed, was_random) ==
    [stock_id |-> stock_id, action |-> action, was_executed |-> was_executed,
     was_random |-> was_random]

\* variant of BelowCap: a BUY is attempted whatever the position
NoCap(position_qty) == TRUE

\* if position_qty < MAX_POSITION_SIZE
BelowCap(position_qty) == position_qty < MAX_POSITION_SIZE

\* variant of SellQuantity: one share is kept
SellAllButOne(position_qty) == position_qty - 1

\* the quantity of a SELL: quantity=position_qty
SellQuantity(position_qty) == position_qty

\* variant of SufficientCash: the balance is not compared with the cost
CashNotChecked(balance, cost) == TRUE

\* if bankroll['balance'] >= cost
SufficientCash(balance, cost) == balance >= cost

\* the branch of execute_action that trades: the outcomes of the ledger call
\* it makes, or "skipped" when it makes none
TradeOutcomes(tr, stock_id, action, market_data, executed_at) ==
    LET price == market_data.price
        position_qty == market_data.position_qty
        qty_to_buy == Min(LotSize, MAX_POSITION_SIZE - position_qty)
        skipped == [status |-> "skipped", trades |-> tr, trade_id |-> 0, quantity |-> 0,
                    realized_pnl |-> 0, closed_trades |-> <<>>]
    IN  IF action = "BUY"
        THEN IF BelowCap(position_qty) /\ SufficientCash(Balance(tr), qty_to_buy * price)
             THEN {InsertBuy(tr, stock_id, qty_to_buy, price, "RL_AGENT", executed_at)}
             ELSE {skipped}
        ELSE IF action = "SELL" /\ position_qty > 0
        THEN InsertSell(tr, stock_id, SellQuantity(position_qty), price, "RL_AGENT", executed_at)
        ELSE {skipped}

\* execute_action(...) for the ledger outcome o: the decision is logged, the
\* reward computed from the state before the action, the next state read and
\* the agent updated. A SELL that the ledger rejects raises out of
\* execute_action (status "error")
execute_action(a, qt, stock_id, action, market_data, was_random, state, market, o) ==
    LET qt1 == Materialized(qt, to_tuple(state))
        was_executed == o.status = "ok"
        reward == calculate_reward(action, was_executed, o.realized_pnl, state, market_data)
        next_state == get_current_state(o.trades, stock_id, market).state
        learned == update_q_value(a, qt1, state, action, reward, next_state, FALSE)
    IN  [status |-> IF o.status = "error" THEN "error" ELSE "ok",
         executed |-> was_executed,
         entry |-> DecisionRow(stock_id, action, was_executed, was_random),
         reward |-> reward,
         agent |-> finish_episode(learned.agent),
         q_table |-> learned.q_table]

\* what a decision cycle reports of itself
CycleCall(stock_id, status, state, action, price, reward, win_rate, was_executed, q_before, q_after) ==
    AgentCall("trade_single_stock",
              [stock_id |-> stock_id, status |-> status, state |-> state,
               action |-> action, price |-> price, reward |-> reward,
               win_rate |-> win_rate, was_executed |-> was_executed,
               q_before |-> q_before, q_after |-> q_after])

\* variant of the except branch of trade_single_stock: the agent as loaded
\* and re-targeted is saved although the cycle failed
AbortSaving(stock_id, a, qt) == save_q_table(store, stock_id, save(a, qt))

\* the except branch of trade_single_stock: nothing is written
Abort(stock_id, a, qt) == store

\* trade_single_stock(symbol, portfolio_win_rate, force_exploit): one decision
\* cycle. stock_win_rate is the result of get_stock_win_rate (None or a
\* percentage), portfolio_win_rate the fraction read by main
trade_single_stock(stock_id, market, stock_win_rate, portfolio_win_rate, force_exploit, draw, pick, env) ==
    LET loaded == load_or_create_agent(store, stock_id, env)
        win_rate == [stock |-> stock_win_rate, portfolio |-> portfolio_win_rate,
                     used |-> DecayWinRate(stock_win_rate, portfolio_win_rate)]
        a == set_exploration_decay(loaded.agent, get_adaptive_decay_rate(win_rate.used))
        current == get_current_state(trades, stock_id, market)
        chosen == choose_action(loaded.q_table, a.exploration_rate, current.state,
                                force_exploit, draw, pick)
    IN  /\ loaded.status = "ok"
        /\ IF InsufficientHistory(market) \/ current.status # "ok"
           THEN /\ store' = Abort(stock_id, a, loaded.q_table)
                /\ agentCall' = CycleCall(stock_id, "error", NULL, "NONE", 0, 0,
                                          win_rate, FALSE, 0, 0)
                /\ UNCHANGED <<ledgerVars, agent, q_table, decisions, updates>>
           ELSE \E o \in TradeOutcomes(trades, stock_id, chosen.action, current.market_data, Clock) :
             LET done == execute_action(a, chosen.q_table, stock_id, chosen.action,
                                        current.market_data, chosen.was_random,
                                        current.state, market, o)
             IN  /\ done.status = "ok"
                 /\ trades' = o.trades
                 /\ now' = IF o.status = "ok" THEN Clock ELSE now
                 /\ result' = IF o.status = "ok"
                               THEN Outcome(chosen.action, stock_id, o) ELSE result
                 /\ executed' = IF o.status = "ok"
                                 THEN Record(chosen.action, stock_id, market.price, o)
                                 ELSE executed
                 /\ decisions' = Append(decisions, done.entry)
                 /\ agent' = done.agent
                 /\ q_table' = done.q_table
                 /\ store' = save_q_table(store, stock_id, save(done.agent, done.q_table))
                 /\ agentCall' = CycleCall(stock_id, "ok", current.state, chosen.action,
                                           market.price, done.reward, win_rate,
                                           done.executed,
                                           get_q_value(loaded.q_table, current.state, chosen.action),
                                           done.q_table[to_tuple(current.state)][chosen.action])
                 /\ UNCHANGED updates

\* variant of insert_decision_log: only executed decisions are stored
insert_executed_decision_log(log, entry) ==
    IF entry.was_executed THEN Append(log, entry) ELSE log

\* insert_decision_log(...): one row is appended to trade_decisions_log
insert_decision_log(log, entry) == Append(log, entry)

\* variant of UpdateFailed: the episode is finished although the update failed
UpdateFailedFinishing(a, qt) == [agent |-> finish_episode(a), q_table |-> qt]

\* the except branch of the Q-learning update of execute_action: the failure
\* is printed and the agent stays as it was
UpdateFailed(a, qt) == [agent |-> a, q_table |-> qt]

\* a decision cycle is between two of its steps
InFlight ==
    agentCall.op \in {"choose_action", "execute_action", "insert_decision_log",
                      "update_q_value"}

\* the step of the cycle that was completed last, with the local variables
\* of trade_single_stock and execute_action
CycleAt(op, locals) == [op |-> op, before |-> NULL, arg |-> locals]

\* trade_single_stock up to choose_action: the agent is loaded and
\* re-targeted, the state is read and the action chosen
BeginCycle(stock_id, market, stock_win_rate, portfolio_win_rate, force_exploit, draw, pick, env) ==
    LET loaded == load_or_create_agent(store, stock_id, env)
        a == set_exploration_decay(
               loaded.agent,
               get_adaptive_decay_rate(DecayWinRate(stock_win_rate, portfolio_win_rate)))
        current == get_current_state(trades, stock_id, market)
        chosen == choose_action(loaded.q_table, a.exploration_rate, current.state,
                                force_exploit, draw, pick)
    IN  /\ ~InFlight
        /\ loaded.status = "ok"
        /\ ~InsufficientHistory(market) /\ current.status = "ok"
        /\ agent' = a
        /\ q_table' = chosen.q_table
        /\ agentCall' = CycleAt("choose_action",
                                [stock_id |-> stock_id, market |-> market,
                                 state |-> current.state,
                                 market_data |-> current.market_data,
                                 action |-> chosen.action,
                                 was_random |-> chosen.was_random,
                                 executed |-> FALSE, realized_pnl |-> 0,
                                 update_failed |-> FALSE,
                                 started |-> [trades |-> Len(trades),
                                              decisions |-> Len(decisions),
                                              loaded |-> loaded]])
        /\ UNCHANGED <<ledgerVars, store, decisions, updates>>

\* execute_action up to the decision log: the Q-values are read for the log
\* and the order is placed or skipped
PlaceOrder ==
    /\ agentCall.op = "choose_action"
    /\ LET c == agentCall.arg
       IN  \E o \in TradeOutcomes(trades, c.stock_id, c.action, c.market_data, Clock) :
             /\ o.status # "error"
             /\ trades' = o.trades
             /\ now' = IF o.status = "ok" THEN Clock ELSE now
             /\ result' = IF o.status = "ok" THEN Outcome(c.action, c.stock_id, o) ELSE result
             /\ executed' = IF o.status = "ok"
                             THEN Record(c.action, c.stock_id, c.market.price, o)
                             ELSE executed
             /\ q_table' = Materialized(q_table, to_tuple(c.state))
             /\ agentCall' = CycleAt("execute_action",
                                     [c EXCEPT !.executed = (o.status = "ok"),
                                               !.realized_pnl = o.realized_pnl])
    /\ UNCHANGED <<agent, store, decisions, updates>>

\* execute_action: the decision is logged
LogDecision ==
    /\ agentCall.op = "execute_action"
    /\ LET c == agentCall.arg
       IN  decisions' = insert_decision_log(
                          decisions,
                          DecisionRow(c.stock_id, c.action, c.executed, c.was_random))
    /\ agentCall' = CycleAt("insert_decision_log", agentCall.arg)
    /\ UNCHANGED <<ledgerVars, agent, q_table, store, updates>>

\* execute_action: the Q-learning update. fails: calculate_reward,
\* get_current_state or update_q_value raised
LearnFromAction(fails) ==
    /\ agentCall.op = "insert_decision_log"
    /\ LET c == agentCall.arg
           reward == calculate_reward(c.action, c.executed, c.realized_pnl, c.state,
                                      c.market_data)
           next_state == get_current_state(trades, c.stock_id, c.market).state
           learned == update_q_value(agent, q_table, c.state, c.action, reward,
                                     next_state, FALSE)
           left == IF fails THEN UpdateFailed(agent, q_table)
                   ELSE [agent |-> finish_episode(learned.agent),
                         q_table |-> learned.q_table]
       IN  /\ agent' = left.agent
           /\ q_table' = left.q_table
           /\ agentCall' = CycleAt("update_q_value", [c EXCEPT !.update_failed = fails])
    /\ UNCHANGED <<ledgerVars, store, decisions, updates>>

\* trade_single_stock after execute_action: the agent is saved and the cycle
\* returns success
SaveAgent ==
    /\ agentCall.op = "update_q_value"
    /\ store' = save_q_table(store, agentCall.arg.stock_id, save(agent, q_table))
    /\ agentCall' = CycleAt("save_q_table", agentCall.arg)
    /\ UNCHANGED <<ledgerVars, agent, q_table, decisions, updates>>

\* the agent update of settle_position and decay_all_agents: load the row,
\* finish_episode, save; nothing when there is no row or the load raises
DecayAgent(st, stock_id) ==
    IF load_q_table(st, stock_id) = NULL THEN st
    ELSE LET loaded == load(load_q_table(st, stock_id)[1])
         IN  IF loaded.status # "ok" THEN st
             ELSE save_q_table(st, stock_id,
                               save(finish_episode(loaded.agent), loaded.q_table))

\* settle_position for one position: the closing price cannot be fetched
\* (failed), or the position is closed and the agent of the stock updated
settle_position(w, stock_id, exit_price, failed) ==
    IF failed THEN {w}
    ELSE {[trades |-> o.trades,
           clock |-> IF o.status = "ok" THEN w.clock + 1 ELSE w.clock,
           store |-> IF o.status = "error" THEN w.store
                     ELSE DecayAgent(w.store, stock_id)] :
            o \in ClosePositionOutcomes(w.trades, stock_id, exit_price, w.clock + 1)}

\* the loop of main over the positions, in the order the query returned them
RECURSIVE SettlePositions(_, _, _, _)
SettlePositions(w, order, closing, failed) ==
    IF order = <<>> THEN {w}
    ELSE UNION {SettlePositions(w1, Tail(order), closing, failed) :
                  w1 \in settle_position(w, Head(order), closing[Head(order)],
                                         Head(order) \in failed)}

\* decay_all_agents(): every stock of table stocks, ordered by symbol
RECURSIVE DecayAll(_, _)
DecayAll(st, stocks) ==
    IF stocks = <<>> THEN st ELSE DecayAll(DecayAgent(st, Head(stocks)), Tail(stocks))

AllStocks == <<1, 2>>

\* the orders in which a query without ORDER BY can return the stocks of S
Orders2(S) == {sq \in UNION {[1..n -> S] : n \in 0..Cardinality(S)} :
                 /\ Len(sq) = Cardinality(S)
                 /\ \A i, j \in 1..Len(sq) : i # j => sq[i] # sq[j]}

\* main() of settle_trades.py
settle_trades(closing, failed) ==
    LET positions == {pos.stock_id : pos \in get_active_positions(trades)}
    IN  /\ failed \subseteq positions
        /\ \E order \in Orders2(positions) :
             \E w \in SettlePositions([trades |-> trades, clock |-> now, store |-> store],
                                      order, closing, failed) :
               /\ trades' = w.trades
               /\ now' = w.clock
               /\ store' = DecayAll(w.store, AllStocks)
               /\ agentCall' = AgentCall("settle_trades",
                                         [positions |-> positions, failed |-> failed])
               /\ UNCHANGED <<result, executed, agent, q_table, decisions, updates>>

\* inputs of the decision cycle and of the settlement
CyclePrices == {19000, 19001}
Market(p, bars, indicators) ==
    [rsi |-> 50, price |-> p, sma |-> p, vwap |-> p, prev_price |-> p,
     bars |-> bars, indicators |-> indicators]
Markets == {Market(p, MinBars, RequiredIndicators) : p \in CyclePrices}
FailingMarkets ==
    {Market(19000, MinBars - 1, RequiredIndicators)}
      \cup {Market(19000, MinBars, RequiredIndicators \ {i}) : i \in RequiredIndicators}

\* the results of get_stock_win_rate (None or a percentage) with the row of
\* paper_bankroll read by main: <<stock_win_rate, winning_trades, total_trades>>
WinRates ==
    {<<Some(<<p, 1>>), 0, 0>> : p \in {20, 30, 40, 50, 60}}
      \cup {<<NULL, 1, 1>>, <<NULL, 1, 2>>, <<NULL, 2, 5>>, <<NULL, 0, 1>>, <<NULL, 0, 0>>}
CycleWinRates == {<<Some(<<p, 1>>), 0, 0>> : p \in {40, 60}}

\* agent._migrate_old_states() on the agent in memory
MigrateAgain ==
    /\ q_table' = _migrate_old_states(q_table)
    /\ agentCall' = AgentCall("_migrate_old_states", NULL)
    /\ UNCHANGED <<ledgerVars, agent, store, decisions, updates>>

\* texts found as keys of a persisted q_table: states of the 3-bucket schema,
\* a state of the 5-bucket schema, and corrupt keys (not a Python literal; an
\* int; a list; a tuple of two fields; an empty tuple)
LegacyState(rsi, ma) == to_tuple(TradingState(rsi, ma, "AT", "FLAT", "FLAT", "HIGH", "NONE"))
InvalidText == [syntax |-> "invalid", value |-> PyTuple(<<>>)]
PersistedKeys ==
    <<Str(LegacyState("OVERSOLD", "AT")), Str(LegacyState("NEUTRAL", "AT")),
      Str(LegacyState("NEUTRAL", "ABOVE")), Str(LegacyState("OVERBOUGHT", "AT")),
      Str(LegacyState("WEAK", "AT")), InvalidText, Str(PyInt),
      Str(PyList(<<"NEUTRAL", "AT">>)), Str(PyTuple(<<"NEUTRAL", "AT">>)),
      Str(PyTuple(<<>>))>>

\* the action-values stored under the i-th key
PersistedActions(i) == [a \in ActionSet |-> IF a = "BUY" THEN i ELSE IF a = "SELL" THEN 0 - i ELSE 0]

PersistedTables ==
    {[t \in {PersistedKeys[i] : i \in I} |->
        PersistedActions(CHOOSE i \in I : PersistedKeys[i] = t)] :
       I \in {J \in SUBSET (1..Len(PersistedKeys)) : Cardinality(J) <= MaxEntries}}

\* rows of rl_model_states: written by save_q_table, written before the
\* hyperparameters column existed, or holding a full agent state in q_table
RowKinds == {"saved", "no hyperparameters", "full"}
PersistedRow(t, kind) ==
    IF kind = "saved"
    THEN [format |-> "split", q_table |-> t,
          hyperparameters |-> Some(Hyperparameters(save(DefaultAgent, EmptyTable)))]
    ELSE IF kind = "no hyperparameters"
    THEN [format |-> "split", q_table |-> t, hyperparameters |-> NULL]
    ELSE [format |-> "full",
          q_table |-> [save(DefaultAgent, EmptyTable) EXCEPT !.q_table = t],
          hyperparameters |-> NULL]

-----------------------------------------------------------------------------
(* Two SELLs of one stock that run at the same time (db.py). Each call of   *)
(* insert_paper_trade is one transaction on a connection of its own, at the *)
(* isolation level of the server (read committed) and without row locks on  *)
(* the SELECT: what it writes is seen by the other at its commit.           *)

\* the callers of a SELL: execute_action of a decision cycle, and
\* close_position of the settlement
Sellers == {"execute_action", "close_position"}

\* the local variables of a seller that is not running
SellerIdle ==
    [pc |-> "idle", stock_id |-> 0, quantity |-> 0, price |-> 0,
     seen |-> <<>>, open_buys |-> <<>>]

RECURSIVE MatchSeenLots(_, _, _, _, _, _, _, _, _)
\* for buy in open_buys: ... as MatchLots, with buy['quantity'] and
\* buy['price'] taken from the rows seen by the SELECT, and the UPDATEs
\* (WHERE trade_id = %s) applied to the rows db as they are at the commit
MatchSeenLots(db, seen, open_buys, k, remaining_qty, price, executed_at, realized_pnl, closed) ==
    IF k > Len(open_buys) \/ remaining_qty <= 0
    THEN [trades |-> db, realized_pnl |-> realized_pnl, closed_trades |-> closed]
    ELSE LET id == open_buys[k]
             buy_qty == seen[id].quantity
             qty_to_close == QtyToClose(remaining_qty, buy_qty)
             updated == IF qty_to_close = buy_qty
                        THEN [db EXCEPT ![id].status = "CLOSED",
                                        ![id].exit_price = Some(price),
                                        ![id].exit_time = Some(executed_at)]
                        ELSE [db EXCEPT ![id].quantity = @ - qty_to_close]
         IN MatchSeenLots(updated, seen, open_buys, k + 1, remaining_qty - qty_to_close,
                          price, executed_at,
                          realized_pnl + LotPnl(price, seen[id].price, qty_to_close),
                          Append(closed, id))

\* the state of the sellers with seller p at locals
WithSeller(p, locals) ==
    [agentCall EXCEPT !.arg = [@ EXCEPT ![p] = locals]]

\* the caller reads the open quantity of the stock (position_qty of
\* get_active_positions, total_qty of close_position) and, when it is
\* positive, calls insert_paper_trade to sell it
ReadPosition(p, stock_id, price) ==
    LET total_qty == OpenQuantity(trades, stock_id)
    IN  /\ agentCall.arg[p].pc = "idle"
        /\ Len(trades) + Cardinality({q \in Sellers : agentCall.arg[q].pc # "idle"}) < MaxTrades
        /\ total_qty > 0
        /\ agentCall' = WithSeller(p, [SellerIdle EXCEPT !.pc = "insert_paper_trade",
                                                          !.stock_id = stock_id,
                                                          !.quantity = total_qty,
                                                          !.price = price])
        /\ UNCHANGED <<ledgerVars, agent, tableVars>>

\* insert_paper_trade(action='SELL'): the SELECT of the open lots and the
\* validation of the quantity
SelectOpenBuys(p) ==
    LET c == agentCall.arg[p]
    IN  /\ c.pc = "insert_paper_trade"
        /\ \E open_buys \in OpenBuys(trades, c.stock_id) :
             IF InsufficientPosition(c.quantity, TotalOpenQty(trades, open_buys))
             THEN /\ agentCall' = WithSeller(p, SellerIdle)
                  /\ result' = [op |-> p, stock_id |-> c.stock_id, quantity |-> c.quantity,
                                status |-> "error", trade_id |-> 0, realized_pnl |-> 0,
                                closed_trades |-> <<>>]
             ELSE /\ agentCall' = WithSeller(p, [c EXCEPT !.pc = "matching",
                                                          !.seen = trades,
                                                          !.open_buys = open_buys])
                  /\ result' = result
        /\ UNCHANGED <<trades, now, executed, agent, tableVars>>

\* insert_paper_trade(action='SELL'): the UPDATEs of the matched lots, the
\* INSERT of the SELL row and the commit
CommitSell(p) ==
    LET c == agentCall.arg[p]
        m == MatchSeenLots(trades, c.seen, c.open_buys, 1, c.quantity, c.price, Clock,
                           0, <<>>)
        id == Len(trades) + 1
        strategy == IF p = "close_position" THEN "EOD_SETTLEMENT" ELSE "RL_AGENT"
        o == [status |-> "ok",
              trades |-> Append(m.trades, SellRow(id, c.stock_id, c.quantity, c.price,
                                                  strategy, m.realized_pnl, Clock)),
              trade_id |-> id, quantity |-> c.quantity,
              realized_pnl |-> m.realized_pnl, closed_trades |-> m.closed_trades]
    IN  /\ c.pc = "matching"
        /\ trades' = o.trades
        /\ now' = Clock
        /\ result' = Outcome(p, c.stock_id, o)
        /\ executed' = Record("SELL", c.stock_id, c.price, o)
        /\ agentCall' = WithSeller(p, SellerIdle)
        /\ UNCHANGED <<agent, tableVars>>

-----------------------------------------------------------------------------
(* The HTTP client of the market data provider: alpaca_provider.py.        *)
(* Waits are in half seconds.                                              *)

MAX_RETRIES == 3
BACKOFF_BASE_SECONDS == 3

\* what one HTTP request can come to: status 429; requests.request raises
\* Timeout or ConnectionError; raise_for_status raises HTTPError;
\* response.json() fails; the payload has an "error" key; the payload is data
Responses ==
    {"429", "Timeout", "ConnectionError", "HTTPError", "invalid json",
     "error payload", "data"}

\* the exceptions that are a requests.exceptions.RequestException. The error
\* of response.json() is one in the releases of requests that raise
\* requests.exceptions.JSONDecodeError, and a plain ValueError in the others
RetriedErrors(json_error_is_request_exception) ==
    {"Timeout", "ConnectionError", "HTTPError"}
      \cup (IF json_error_is_request_exception THEN {"invalid json"} ELSE {})

\* variant of Backoff: the wait grows by BACKOFF_BASE_SECONDS per attempt
BackoffLinear(attempt) == BACKOFF_BASE_SECONDS * (attempt + 1)

\* wait = self.BACKOFF_BASE_SECONDS * (2 ** attempt)
Backoff(attempt) == BACKOFF_BASE_SECONDS * (2 ^ attempt)

\* the local state of _make_request when it is called
RequestStarted ==
    [attempt |-> 0, requests |-> 0, log |-> <<>>, status |-> "running", raised |-> NULL]

\* one pass of the while loop of _make_request, in which the request gets
\* response. rq is the local state; log records, for every request, the
\* response, the value of attempt when it was sent and the time slept after it
Iteration(rq, response, json_error_is_request_exception) ==
    LET sent == [rq EXCEPT !.requests = @ + 1]
        entry(wait) == [response |-> response, attempt |-> rq.attempt, wait |-> wait]
    IN  IF response = "429"
        THEN [sent EXCEPT !.log = Append(@, entry(Backoff(rq.attempt))),
                          !.attempt = @ + 1,
                          !.status = IF rq.attempt + 1 < MAX_RETRIES THEN "running"
                                     ELSE "raised",
                          !.raised = IF rq.attempt + 1 < MAX_RETRIES THEN NULL
                                     ELSE Some("Exceeded maximum retries")]
        ELSE IF response = "data"
        THEN [sent EXCEPT !.log = Append(@, entry(0)), !.status = "returned"]
        ELSE IF response \in RetriedErrors(json_error_is_request_exception)
        THEN IF rq.attempt + 1 >= MAX_RETRIES
             THEN [sent EXCEPT !.log = Append(@, entry(0)),
                               !.attempt = @ + 1,
                               !.status = "raised",
                               !.raised = Some("HTTP request failed")]
             ELSE [sent EXCEPT !.log = Append(@, entry(Backoff(rq.attempt + 1))),
                               !.attempt = @ + 1]
        ELSE [sent EXCEPT !.log = Append(@, entry(0)),
                          !.status = "raised",
                          !.raised = Some(response)]

\* _make_request(method, endpoint, params): the next request is sent
MakeRequest(response, json_error_is_request_exception) ==
    /\ agentCall.op = "_make_request"
    /\ agentCall.arg.status = "running"
    /\ agentCall.arg.attempt < MAX_RETRIES
    /\ agentCall' = [agentCall EXCEPT
                       !.arg = Iteration(@, response, json_error_is_request_exception)]
    /\ UNCHANGED <<ledgerVars, agent, tableVars>>

-----------------------------------------------------------------------------
(* Specifications *)

InitLedger ==
    /\ trades = <<>>
    /\ now = 0
    /\ result = [op |-> "none", stock_id |-> 0, quantity |-> 0,
                 status |-> "none", trade_id |-> 0, realized_pnl |-> 0,
                 closed_trades |-> <<>>]
    /\ executed = <<>>

NoAgentCall == [op |-> "none", before |-> NULL, arg |-> NULL]

\* a table after three update_q_value calls on one state (done, learning
\* rate 0.5, rewards -1.0, 2.0 and 2.0)
TrainedTable ==
    [k \in {to_tuple(TradingState("OVERSOLD", "AT", "AT", "FLAT", "FLAT", "HIGH", "NONE"))} |->
       [a \in ActionSet |-> IF a = "BUY" THEN 0 - (RewardScale \div 2) ELSE RewardScale]]

InitStore ==
    /\ store = [s \in Stocks |-> NULL]
    /\ decisions = <<>>
    /\ updates = 0

InitTables ==
    /\ q_table = EmptyTable
    /\ InitStore
    /\ store = [s \in Stocks |-> NULL]
    /\ decisions = <<>>
    /\ updates = 0

\* the ledger, driven by any sequence of calls
Init ==
    /\ InitLedger
    /\ InitTables
    /\ agent = DefaultAgent
    /\ agentCall = NoAgentCall

BuyStep ==
    \E s \in Stocks, q \in Quantities, p \in Prices : insert_paper_trade(s, "BUY", q, p)

SellStep ==
    \E s \in Stocks, q \in SellQuantities, p \in Prices :
      insert_paper_trade(s, "SELL", q, p)

CloseStep == \E s \in Stocks, p \in Prices : close_position(s, p)

Next == BuyStep \/ SellStep \/ CloseStep

Spec == Init /\ [][Next]_vars

\* one agent, constructed with any of the parameter values, driven by any
\* sequence of finish_episode and set_exploration_decay calls
InitAgent ==
    /\ InitLedger
    /\ InitTables
    /\ \E e \in ExplorationRates, d \in ExplorationDecays, m \in MinExplorations :
         agent = NewAgent(DefaultLearningRate, DefaultDiscountFactor, e, d, m)
    /\ agentCall = NoAgentCall

SetDecayStep == \E d \in DecayTargets : SetExplorationDecay(d)

NextAgent == FinishEpisode \/ SetDecayStep

SpecAgent == InitAgent /\ [][NextAgent]_vars

\* a new agent whose decay was set as trade_single_stock sets it, driven by any sequence of calls of its methods and of saves
\* to and loads from rl_model_states
InitQ ==
    /\ InitLedger
    /\ InitStore
    /\ q_table \in {EmptyTable, TrainedTable}
    /\ \E alpha \in LearningRates, d \in AdaptiveDecays :
         agent = set_exploration_decay(
                   NewAgent(alpha, DefaultDiscountFactor, RateScale \div 2,
                            DefaultExplorationDecay, DefaultMinExploration), d)
    /\ agentCall = NoAgentCall

GetQStep == \E s \in StateInputs, a \in ActionSet : GetQValue(s, a)

BestActionStep == \E s \in StateInputs : GetBestAction(s)

\* random.choice is called only on the random branch
ChooseStep ==
    \E s \in StateInputs, f \in BOOLEAN, d \in DrawInputs :
      IF ~f /\ d < agent.exploration_rate
      THEN \E a \in ActionSet : ChooseAction(s, f, d, a)
      ELSE ChooseAction(s, f, d, "HOLD")

UpdateStep ==
    \E s \in StateInputs, a \in ActionSet, r \in RewardInputs, n \in StateInputs,
       done \in BOOLEAN :
      UpdateQValue(s, a, r, n, done)

SaveStep == \E s \in SnapshotStocks : Save(s)

LoadStep == \E s \in SnapshotStocks : Load(s)

NextQ ==
    \/ GetQStep \/ BestActionStep \/ ChooseStep \/ UpdateStep
    \/ SaveStep \/ LoadStep

SpecQ == InitQ /\ [][NextQ]_vars

\* an agent loaded from any persisted row, and migrated again
InitLoad ==
    /\ InitLedger
    /\ q_table = EmptyTable
    /\ \E t \in PersistedTables, kind \in RowKinds :
         store = [s \in Stocks |-> IF s = 1 THEN PersistedRow(t, kind) ELSE NULL]
    /\ decisions = <<>>
    /\ updates = 0
    /\ agent = DefaultAgent
    /\ agentCall = NoAgentCall

NextLoad == LoadStep \/ MigrateAgain

SpecLoad == InitLoad /\ [][NextLoad]_vars

\* decision cycles and settlement runs, one after the other, on an empty
\* ledger and an empty rl_model_states
InitCycle ==
    /\ InitLedger
    /\ InitTables
    /\ agent = DefaultAgent
    /\ agentCall = NoAgentCall

\* a decision cycle of stock s with win rates w, run with or without
\* --exploit; the random action is drawn only when the cycle explores
Cycle(s, m, w, f, d, env) ==
    LET epsilon == load_or_create_agent(store, s, env).agent.exploration_rate
        portfolio_win_rate == bankroll_win_rate(w[2], w[3])
    IN  IF ~f /\ d < epsilon
        THEN \E a \in ActionSet :
               trade_single_stock(s, m, w[1], portfolio_win_rate, f, d, a, env)
        ELSE trade_single_stock(s, m, w[1], portfolio_win_rate, f, d, "HOLD", env)

CycleStep ==
    \E s \in Stocks, m \in Markets, w \in CycleWinRates, f \in BOOLEAN, d \in DrawInputs :
      Len(decisions) < MaxDecisions /\ Cycle(s, m, w, f, d, DefaultEnvironment)

\* a cycle that finds too few price bars or no indicator
FailedCycleStep ==
    \E s \in Stocks, m \in FailingMarkets :
      trade_single_stock(s, m, NULL, bankroll_win_rate(0, 0), FALSE, 0, "HOLD", DefaultEnvironment)

SettleStep ==
    \E p \in CyclePrices, failed \in SUBSET Stocks :
      /\ \A s \in Stocks : store[s] # NULL =>
            store[s].hyperparameters[1].total_episodes < MaxEpisodes
      /\ settle_trades([s \in Stocks |-> p], failed)

NextCycle == CycleStep \/ SettleStep

SpecCycle == InitCycle /\ [][NextCycle]_vars

\* decision cycles of the stocks, some of which find too few price bars or
\* no indicator
TradedCycleStep ==
    \E s \in Stocks, m \in Markets, a \in ActionSet :
      /\ Len(decisions) < MaxDecisions
      /\ trade_single_stock(s, m, Some(<<60, 1>>), bankroll_win_rate(0, 0), FALSE, 0, a,
                            DefaultEnvironment)

NextAbort == TradedCycleStep \/ FailedCycleStep

SpecAbort == InitCycle /\ [][NextAbort]_vars

\* decision cycles of one stock that explore at prices that differ by one
\* unit, so that a SELL realises a profit or a loss
LearnStep ==
    \E m \in Markets, a \in ActionSet :
      /\ Len(decisions) < MaxLearnCycles
      /\ trade_single_stock(1, m, Some(<<60, 1>>), bankroll_win_rate(0, 0), FALSE, 0, a,
                            DefaultEnvironment)

SpecLearn == InitCycle /\ [][LearnStep]_vars

\* decision cycles of one stock at a price at which the cash buys more than
\* MAX_POSITION_SIZE shares, and settlement runs that close a position
CheapMarket == Market(3000, MinBars, RequiredIndicators)

CapCycleStep ==
    \E a \in ActionSet :
      /\ Len(decisions) < MaxCapCycles
      /\ trade_single_stock(1, CheapMarket, Some(<<60, 1>>), bankroll_win_rate(0, 0), FALSE, 0, a,
                            DefaultEnvironment)

CapSettleStep ==
    /\ get_active_positions(trades) # {}
    /\ settle_trades([s \in Stocks |-> CheapMarket.price], {})

NextCap == CapCycleStep \/ CapSettleStep

SpecCap == InitCycle /\ [][NextCap]_vars

\* decision cycles run step by step, one cycle after the other; the
\* Q-learning update of a cycle may fail
BeginCycleStep ==
    \E s \in Stocks, m \in Markets, a \in ActionSet :
      /\ Len(decisions) < MaxDecisions
      /\ BeginCycle(s, m, Some(<<60, 1>>), bankroll_win_rate(0, 0), FALSE, 0, a,
                            DefaultEnvironment)

LearnFromActionStep == \E fails \in BOOLEAN : LearnFromAction(fails)

NextSteps ==
    BeginCycleStep \/ PlaceOrder \/ LogDecision \/ LearnFromActionStep \/ SaveAgent

SpecSteps == InitCycle /\ [][NextSteps]_vars

\* decision cycles of one stock with waits between them: the clock counts
\* minutes, and a wait lets LINGERING_THRESHOLD_MINUTES pass
Wait ==
    /\ trades # <<>>
    /\ now + LINGERING_THRESHOLD_MINUTES <= MaxMinutes
    /\ now' = now + LINGERING_THRESHOLD_MINUTES
    /\ UNCHANGED <<trades, result, executed, agentVars, tableVars>>

NextLinger == LearnStep \/ Wait

SpecLinger == InitCycle /\ [][NextLinger]_vars

\* one call of _make_request, against every sequence of responses
InitRequest ==
    /\ InitLedger
    /\ InitTables
    /\ agent = DefaultAgent
    /\ agentCall = [op |-> "_make_request", before |-> NULL, arg |-> RequestStarted]

NextRequest == \E r \in Responses, j \in BOOLEAN : MakeRequest(r, j)

SpecRequest == InitRequest /\ [][NextRequest]_vars /\ WF_vars(NextRequest)

\* decision cycles of one stock and settlement runs, the agent being created
\* under any of the environments
Environments ==
    {[DefaultEnvironment EXCEPT !.EXPLORATION_RATE = e, !.EXPLORATION_DECAY = d,
                                !.MIN_EXPLORATION = m] :
       e \in {RateScale, 100}, d \in {9900, 10100}, m \in {100, 10}}

EpsilonCycleStep ==
    \E env \in Environments, a \in ActionSet :
      /\ Len(decisions) < MaxDecisions
      /\ trade_single_stock(1, Market(19000, MinBars, RequiredIndicators), Some(<<60, 1>>),
                            bankroll_win_rate(0, 0), FALSE, 0, a, env)

NextEpsilon == EpsilonCycleStep \/ SettleStep

SpecEpsilon == InitCycle /\ [][NextEpsilon]_vars

\* BUYs, and SELLs of a decision cycle and of a settlement that run at the
\* same time
InitSell ==
    /\ InitLedger
    /\ InitTables
    /\ agent = DefaultAgent
    /\ agentCall = [op |-> "sell", before |-> NULL, arg |-> [p \in Sellers |-> SellerIdle]]

ReadPositionStep == \E p \in Sellers, s \in Stocks, price \in Prices : ReadPosition(p, s, price)

SelectOpenBuysStep == \E p \in Sellers : SelectOpenBuys(p)

CommitSellStep == \E p \in Sellers : CommitSell(p)

NextSell == BuyStep \/ ReadPositionStep \/ SelectOpenBuysStep \/ CommitSellStep

SpecSell == InitSell /\ [][NextSell]_vars

\* from_market_data applied to inputs around every bucket boundary
RsiValues == {0, 29, 30, 31, 44, 45, 54, 55, 69, 70, 100}
PriceValues == {99, 100, 101}
AverageValues == {0 - 100, 0, 100}
PositionValues == {0 - 5, 0, 5}
CashValues == {0 - 1, 29999, 30000, 70000}
ExposureValues == {0, 5000, 5001, 50000, 100000, 100001}
StartingCashValues == {0, STARTING_CASH}

DiscretizerInputs ==
    [rsi : RsiValues, price : PriceValues, sma : AverageValues, vwap : {0, 100},
     position_quantity : PositionValues, prev_price : {0, 100},
     cash_available : CashValues, total_exposure : ExposureValues,
     starting_cash : StartingCashValues]

InitState ==
    /\ InitLedger
    /\ InitTables
    /\ agent = DefaultAgent
    /\ \E in \in DiscretizerInputs : agentCall = [op |-> "input", before |-> NULL, arg |-> in]

FromMarketData ==
    /\ agentCall.op = "input"
    /\ LET in == agentCall.arg
           out == from_market_data(in.rsi, in.price, in.sma, in.vwap,
                                   in.position_quantity, in.prev_price,
                                   in.cash_available, <<in.total_exposure, 1>>,
                                   in.starting_cash)
       IN  agentCall' = [op |-> "from_market_data", before |-> in, arg |-> out]
    /\ UNCHANGED <<ledgerVars, agent, tableVars>>

SpecState == InitState /\ [][FromMarketData]_vars

\* calculate_reward applied to every action, outcome, bucket and position age
RewardCases ==
    [action : ActionSet, was_executed : BOOLEAN, realized_pnl : {0 - 2, 0, 2},
     cash_bucket : {"HIGH", "MEDIUM", "LOW"},
     exposure_bucket : {"NONE", "LIGHT", "HEAVY", "OVEREXTENDED"},
     position_age_minutes : {0, 5, 10, 11, 30, 45},
     position_qty : {0, 5},
     prices : {<<99, 101>>, <<101, 99>>, <<50, 101>>, <<100, 100>>},
     unrealized_pnl : {0 - 1000, 0 - 10, 0, 10}]

InitReward ==
    /\ InitLedger
    /\ InitTables
    /\ agent = DefaultAgent
    /\ \E in \in RewardCases : agentCall = [op |-> "input", before |-> NULL, arg |-> in]

CalculateReward ==
    /\ agentCall.op = "input"
    /\ LET in == agentCall.arg
           state == TradingState("NEUTRAL", "AT", "AT",
                                 IF in.position_qty > 0 THEN "LONG" ELSE "FLAT", "FLAT",
                                 in.cash_bucket, in.exposure_bucket)
           market_data == [price |-> in.prices[1], prev_price |-> in.prices[2],
                           position_qty |-> in.position_qty,
                           unrealized_pnl |-> <<in.unrealized_pnl, 1>>,
                           position_age_minutes |-> in.position_age_minutes]
       IN  agentCall' = [op |-> "calculate_reward", before |-> in,
                         arg |-> calculate_reward(in.action, in.was_executed,
                                                  in.realized_pnl, state, market_data)]
    /\ UNCHANGED <<ledgerVars, agent, tableVars>>

SpecReward == InitReward /\ [][CalculateReward]_vars

\* decision cycles of one stock under every win rate
DecayCycleStep ==
    \E m \in Markets, w \in WinRates, d \in DrawInputs :
      Len(decisions) < MaxDecisions /\ Cycle(1, m, w, FALSE, d, DefaultEnvironment)

SpecDecay == InitCycle /\ [][DecayCycleStep]_vars

-----------------------------------------------------------------------------
(* Quantities the properties speak about, computed from the stored rows   *)
(* and from the history of executed orders                                *)

IsOpenLot(row, s) ==
    row.stock_id = s /\ row.action = "BUY" /\ row.status = "OPEN"

RECURSIVE OpenLotQty(_, _)
\* the net open quantity of stock s: the quantities of its OPEN BUY rows
OpenLotQty(tr, s) ==
    IF tr = <<>> THEN 0
    ELSE (IF IsOpenLot(Head(tr), s) THEN Head(tr).quantity ELSE 0)
         + OpenLotQty(Tail(tr), s)

RECURSIVE SumInts(_)
SumInts(ns) == IF ns = <<>> THEN 0 ELSE Head(ns) + SumInts(Tail(ns))

\* the sum of F(e) over the entries e of a log
SumLog(log, F(_)) == SumInts([i \in 1..Len(log) |-> F(log[i])])

\* the executed orders of one side for one stock
Orders(a, s) == SelectSeq(executed, LAMBDA e : e.action = a /\ e.stock_id = s)

BoughtQty(s) == SumLog(Orders("BUY", s), LAMBDA e : e.quantity)
SoldQty(s) == SumLog(Orders("SELL", s), LAMBDA e : e.quantity)

\* the last call was a SELL (by insert_paper_trade or close_position) that
\* was accepted in the step
AcceptedSell ==
    /\ result'.op \in {"SELL", "CLOSE"}
    /\ result'.status = "ok"
    /\ Len(trades') = Len(trades) + 1

-----------------------------------------------------------------------------
(* Properties of the ledger *)

\* C1: after any sequence of BUYs, SELLs (accepted or rejected) and
\* settlements, the net open quantity of every stock is >= 0 and the quantity
\* sold never exceeds the quantity bought.
C1_NoShortPosition ==
    \A s \in Stocks : OpenLotQty(trades, s) >= 0 /\ SoldQty(s) <= BoughtQty(s)

\* a stock was bought, sold out completely, and a further SELL was rejected
C1_Witness ==
    /\ result.op = "SELL" /\ result.status = "error"
    /\ BoughtQty(result.stock_id) > 0
    /\ SoldQty(result.stock_id) = BoughtQty(result.stock_id)

\* C2: a SELL of more than the stock's open quantity fails with an error and
\* leaves the ledger as it was: no row is appended, no lot changes.
C2_RejectedSellLeavesLedger ==
    [][(result'.op = "SELL"
          /\ result'.quantity > OpenLotQty(trades, result'.stock_id))
         => (result'.status = "error" /\ trades' = trades /\ executed' = executed)
      ]_vars

\* a SELL of more than the open quantity of a stock that has an open position
\* was rejected
C2_Witness ==
    /\ result.op = "SELL" /\ result.status = "error"
    /\ OpenLotQty(trades, result.stock_id) > 0
    /\ result.quantity > OpenLotQty(trades, result.stock_id)

\* what a SELL took from lot i
Consumed(before, after, i) ==
    IF after[i].status = "CLOSED" THEN before[i].quantity
    ELSE before[i].quantity - after[i].quantity

FifoMatched(before, after, s, quantity) ==
    LET lots == {i \in 1..Len(before) : IsOpenLot(before[i], s)}
        c == [i \in lots |-> Consumed(before, after, i)]
    IN /\ \A i \in lots : c[i] >= 0 /\ c[i] <= before[i].quantity
       /\ \A i, j \in lots :
            (c[i] > 0 /\ before[j].executed_at < before[i].executed_at)
              => (after[j].status = "CLOSED" /\ c[j] = before[j].quantity)
       /\ Cardinality({i \in lots : c[i] > 0 /\ after[i].status = "OPEN"}) <= 1
       /\ SumOver(lots, c) = quantity
       /\ \A i \in (1..Len(before)) \ lots : after[i] = before[i]

\* C3: an accepted SELL consumes the stock's OPEN BUY lots oldest first: a lot
\* is touched only if every older open lot is fully consumed, at most one lot
\* is left partially consumed, the matched quantities sum to the SELL quantity.
C3_FifoMatching ==
    [][AcceptedSell =>
         FifoMatched(trades, trades', result'.stock_id, result'.quantity)]_vars

\* a SELL closed the oldest lot and partially consumed the next one
C3_Witness ==
    /\ result.op = "SELL" /\ result.status = "ok"
    /\ Len(result.closed_trades) = 2
    /\ trades[result.closed_trades[1]].status = "CLOSED"
    /\ trades[result.closed_trades[2]].status = "OPEN"
    /\ trades[result.closed_trades[1]].executed_at
         < trades[result.closed_trades[2]].executed_at

\* the orders executed for stock s, in order
OrdersOf(s) == SelectSeq(executed, LAMBDA e : e.stock_id = s)

\* stock s saw BUYs at price pb and then SELLs at price ps of equal total quantity
BuysThenSells(s, pb, ps) ==
    LET log == OrdersOf(s)
    IN /\ Orders("BUY", s) # <<>> /\ Orders("SELL", s) # <<>>
       /\ \A i \in 1..Len(log) :
            log[i].price = (IF log[i].action = "BUY" THEN pb ELSE ps)
       /\ \A i, j \in 1..Len(log) :
            (i < j) => ~(log[i].action = "SELL" /\ log[j].action = "BUY")
       /\ BoughtQty(s) = SoldQty(s)

\* C4: BUYs at one price followed by SELLs at one price of equal total
\* quantity q (the SELLs may be split): the realized_pnl values returned by
\* the SELLs sum to (p_sell - p_buy) * q and the open quantity is 0.
C4_RoundTripPnl ==
    \A s \in Stocks, pb \in Prices, ps \in Prices :
      BuysThenSells(s, pb, ps) =>
        /\ SumLog(Orders("SELL", s), LAMBDA e : e.realized_pnl)
             = (ps - pb) * BoughtQty(s)
        /\ OpenLotQty(trades, s) = 0

\* a position bought at one price was sold in two partial SELLs at another
C4_Witness ==
    \E s \in Stocks, pb \in Prices, ps \in Prices :
      /\ BuysThenSells(s, pb, ps)
      /\ pb # ps
      /\ Len(Orders("SELL", s)) >= 2

\* what the executed orders of one side moved, quantity * price each
ExecutedAmount(a) ==
    SumLog(SelectSeq(executed, LAMBDA e : e.action = a),
           LAMBDA e : e.quantity * e.price)

\* C5: after any sequence of executed trades the balance recomputed from the
\* stored rows equals starting cash minus quantity * price of every executed
\* BUY plus quantity * price of every executed SELL.
C5_BalanceMatchesExecutedTrades ==
    Balance(trades) = StartingCash - ExecutedAmount("BUY") + ExecutedAmount("SELL")

\* total_pnl: the realized profit_loss of the CLOSED SELL rows
TotalPnl(tr) ==
    SumLog(SelectSeq(tr, LAMBDA row : row.action = "SELL" /\ row.status = "CLOSED"),
           LAMBDA row : row.profit_loss[1])

\* C6: whenever no stock has open quantity, balance - starting cash equals
\* total_pnl, for every sequence of BUYs and SELLs that ends flat.
C6_FlatBalanceDeltaIsPnl ==
    (\A s \in Stocks : OpenLotQty(trades, s) = 0)
      => Balance(trades) - StartingCash = TotalPnl(trades)

\* C7: a row carries profit_loss if and only if it is a SELL with status
\* CLOSED; every SELL is stored CLOSED with profit_loss set and no BUY, OPEN or
\* CLOSED, carries profit_loss.
C7_ProfitLossOnlyOnSell ==
    \A i \in 1..Len(trades) :
      /\ (trades[i].profit_loss # NULL)
           <=> (trades[i].action = "SELL" /\ trades[i].status = "CLOSED")
      /\ trades[i].action = "SELL"
           => (trades[i].status = "CLOSED" /\ trades[i].profit_loss # NULL)
      /\ trades[i].action = "BUY" => trades[i].profit_loss = NULL

\* a BUY lot was closed by a SELL, and another BUY lot is still open
C7_Witness ==
    \E i, j, k \in 1..Len(trades) :
      /\ trades[i].action = "BUY" /\ trades[i].status = "CLOSED"
      /\ trades[j].action = "BUY" /\ trades[j].status = "OPEN"
      /\ trades[k].action = "SELL" /\ trades[k].profit_loss # NULL

\* close_position on ledger tr did what settlement of stock s must do
Settled(tr, s, o) ==
    LET q == OpenLotQty(tr, s)
    IN IF q > 0
       THEN /\ o.status = "ok"
            /\ Len(o.trades) = Len(tr) + 1
            /\ LET sell == o.trades[Len(o.trades)]
               IN /\ sell.action = "SELL" /\ sell.stock_id = s
                  /\ sell.quantity = q
                  /\ sell.strategy = "EOD_SETTLEMENT"
            /\ \A i \in 1..Len(tr) :
                 o.trades[i].action = tr[i].action
                   /\ (IsOpenLot(tr[i], s) \/ o.trades[i] = tr[i])
            /\ OpenLotQty(o.trades, s) = 0
       ELSE o.status = "noop" /\ o.realized_pnl = 0 /\ o.trades = tr

\* C8: settlement is idempotent per stock: close_position with open quantity
\* q > 0 records one SELL of exactly q tagged EOD_SETTLEMENT and leaves open
\* quantity 0; with no open quantity it returns 0 and leaves the ledger
\* unchanged; settling twice yields the same ledger as settling once.
C8_SettlementIdempotent ==
    \A s \in Stocks, p1 \in Prices, p2 \in Prices :
      \A o1 \in ClosePositionOutcomes(trades, s, p1, now + 1) :
        /\ Settled(trades, s, o1)
        /\ \A o2 \in ClosePositionOutcomes(o1.trades, s, p2, now + 2) :
             o2.status = "noop" /\ o2.realized_pnl = 0 /\ o2.trades = o1.trades

\* a stock with an open position was settled, and then settled again
C8_Witness ==
    /\ result.op = "CLOSE" /\ result.status = "noop"
    /\ Len(trades) >= 2
    /\ LET last == trades[Len(trades)]
       IN /\ last.stock_id = result.stock_id
          /\ last.strategy = "EOD_SETTLEMENT"
          /\ last.quantity > 0

\* C9: the avg_entry_price reported for a stock is the quantity-weighted
\* average price of its OPEN BUY lots, sum(quantity * price) / sum(quantity).
C9_AvgEntryPriceIsWeighted ==
    \A pos \in get_active_positions(trades) :
      LET lots == {i \in 1..Len(trades) : IsOpenLot(trades[i], pos.stock_id)}
          cost == SumOver(lots, [i \in 1..Len(trades) |->
                                   trades[i].quantity * trades[i].price])
      IN pos.avg_entry_price[1] * OpenLotQty(trades, pos.stock_id)
           = cost * pos.avg_entry_price[2]

-----------------------------------------------------------------------------
(* Properties of the agent's exploration schedule *)

\* C10 as stated: for every agent state, finish_episode increments
\* total_episodes by exactly 1 and leaves epsilon' <= epsilon and
\* epsilon' >= min_exploration.
C10_EpsilonNeverIncreases ==
    agentCall.op = "finish_episode" =>
      /\ agent.total_episodes = agentCall.before.total_episodes + 1
      /\ agent.exploration_rate <= agentCall.before.exploration_rate
      /\ agent.exploration_rate >= agent.min_exploration

\* C10 as amended: finish_episode increments total_episodes by exactly 1 and
\* leaves epsilon' >= min_exploration; epsilon' <= epsilon whenever the call
\* starts with epsilon >= min_exploration and exploration_decay <= 1.
C10_EpsilonDecaysAboveFloor ==
    agentCall.op = "finish_episode" =>
      LET a == agentCall.before
      IN /\ agent.total_episodes = a.total_episodes + 1
         /\ agent.exploration_rate >= agent.min_exploration
         /\ agent.min_exploration = a.min_exploration
         /\ (a.exploration_rate >= a.min_exploration
               /\ a.exploration_decay <= RateScale)
              => agent.exploration_rate <= a.exploration_rate

\* a second finish_episode took epsilon from above the floor down to the floor
C10_Witness ==
    /\ agentCall.op = "finish_episode"
    /\ agent.total_episodes >= 2
    /\ agentCall.before.exploration_decay <= RateScale
    /\ agentCall.before.exploration_rate > agent.min_exploration
    /\ agent.exploration_rate = agent.min_exploration

-----------------------------------------------------------------------------
(* Claims about the Q-table *)

Complete(qt) == \A k \in DOMAIN qt : DOMAIN qt[k] = ActionSet

\* states that a call reads with get_q_value
StatesRead(call) ==
    IF call.op \in {"get_q_value", "get_best_action"} THEN {call.arg.state}
    ELSE IF call.op = "choose_action" /\ ~call.arg.ret[2] THEN {call.arg.state}
    ELSE IF call.op = "update_q_value"
         THEN {call.arg.state} \cup (IF call.arg.done THEN {} ELSE {call.arg.next_state})
    ELSE {}

\* C13: after any sequence of get_q_value, get_best_action, choose_action,
\* update_q_value, save and load, every state in the Q-table maps exactly
\* BUY, SELL and HOLD to a value, and a state read for the first time is
\* created with all three values 0 (the updated pair excepted).
C13_TableAlwaysComplete ==
    [][/\ Complete(q_table')
       /\ \A st \in StatesRead(agentCall') :
            to_tuple(st) \notin DOMAIN q_table =>
              /\ to_tuple(st) \in DOMAIN q_table'
              /\ \A a \in ActionSet :
                   \/ q_table'[to_tuple(st)][a] = 0
                   \/ /\ agentCall'.op = "update_q_value"
                      /\ agentCall'.arg.state = st
                      /\ agentCall'.arg.action = a]_vars

\* a state was created by a read after the agent had learned, saved and
\* loaded
C13_Witness ==
    /\ agentCall.op = "get_q_value"
    /\ q_table[to_tuple(agentCall.arg.state)] = ZeroActions
    /\ \E k \in DOMAIN q_table : q_table[k] # ZeroActions
    /\ Cardinality(DOMAIN q_table) >= 4
    /\ store[1] # NULL

\* the first action in the order BUY, SELL, HOLD whose value is maximal
FirstMaximal(q) ==
    IF q["BUY"] >= q["SELL"] /\ q["BUY"] >= q["HOLD"] THEN "BUY"
    ELSE IF q["SELL"] >= q["HOLD"] THEN "SELL"
    ELSE "HOLD"

\* C14: choose_action(state, force_exploit=true) returns (a, false) where a
\* is the first action in the order BUY, SELL, HOLD whose Q-value is maximal
\* for that state, whatever epsilon and the random draw are.
C14_ForceExploitIsGreedy ==
    (agentCall.op = "choose_action" /\ agentCall.arg.force_exploit) =>
      agentCall.arg.ret = <<FirstMaximal(q_table[to_tuple(agentCall.arg.state)]), FALSE>>

\* a forced choice on a state where SELL and HOLD tie above BUY
C14_Witness ==
    /\ agentCall.op = "choose_action"
    /\ agentCall.arg.force_exploit
    /\ agentCall.arg.ret = <<"SELL", FALSE>>
    /\ LET q == q_table[to_tuple(agentCall.arg.state)]
       IN  q["SELL"] = q["HOLD"] /\ q["BUY"] < q["SELL"]

\* the value of (k, a) before a call; an unseen state counts as zeros
OldQ(k, a) == IF k \in DOMAIN q_table THEN q_table[k][a] ELSE 0

\* C15: update_q_value(state, action, reward, next_state, done) sets
\* Q(state, action) to old + alpha * (target - old), target = reward when
\* done, else reward + gamma * max over the actions of Q(next_state, .), and
\* changes no other value of the table except creating unseen states with
\* zeros.
C15_UpdateRule ==
    [][agentCall'.op = "update_q_value" =>
         LET c == agentCall'.arg
             key == to_tuple(c.state)
             next == to_tuple(c.next_state)
             old == OldQ(key, c.action)
             best == MaxOf({OldQ(next, a) : a \in ActionSet})
             target == IF c.done THEN c.reward
                       ELSE c.reward + MulRate(agent.discount_factor, best)
         IN  /\ q_table'[key][c.action] = old + MulRate(agent.learning_rate, target - old)
             /\ DOMAIN q_table \subseteq DOMAIN q_table'
             /\ DOMAIN q_table' \subseteq DOMAIN q_table \cup {key, next}
             /\ \A k \in DOMAIN q_table', a \in ActionSet :
                  <<k, a>> # <<key, c.action>> => q_table'[k][a] = OldQ(k, a)]_vars

\* an update that was not done and whose next state had a positive best value
C15_Witness ==
    /\ agentCall.op = "update_q_value"
    /\ ~agentCall.arg.done
    /\ agentCall.arg.state # agentCall.arg.next_state
    /\ q_table[to_tuple(agentCall.arg.next_state)]["SELL"] = RewardScale
    /\ q_table[to_tuple(agentCall.arg.state)][agentCall.arg.action] =
         MulRate(agent.learning_rate,
                 2 * RewardScale + MulRate(agent.discount_factor, RewardScale))

-----------------------------------------------------------------------------
(* Claims about migration and persistence *)

Rebucket(k, bucket) == PyTuple(<<bucket>> \o Tail(k.items))

MigratedOnce ==
    \/ agentCall.op = "_migrate_old_states"
    \/ agentCall.op = "load" /\ agentCall.arg.status = "ok"

\* C16: legacy-schema migration is idempotent: applying _migrate_old_states
\* to a table that it has already been applied to leaves the table as it is.
C16_MigrationIdempotent ==
    [][(MigratedOnce /\ agentCall'.op = "_migrate_old_states") => q_table' = q_table]_vars

\* the migration ran again on a table whose NEUTRAL entry had been expanded
C16_Witness ==
    /\ agentCall.op = "_migrate_old_states"
    /\ \E k \in DOMAIN q_table :
         /\ First(k) = "NEUTRAL"
         /\ Rebucket(k, "WEAK") \in DOMAIN q_table
         /\ Rebucket(k, "STRONG") \in DOMAIN q_table
         /\ q_table[Rebucket(k, "WEAK")] = q_table[k]
         /\ q_table[k]["BUY"] # 0

\* the q_table dict of the row of stock 1
RowTable == IF store[1].format = "full" THEN store[1].q_table.q_table ELSE store[1].q_table

WellFormedKey(k) == k.kind = "tuple" /\ Len(k.items) = 7
WellFormedText(t) == t.syntax = "literal" /\ WellFormedKey(t.value)

\* a table of the 3-bucket RSI schema
LegacyTable(T) ==
    \A t \in DOMAIN T :
      WellFormedText(t) /\ First(t.value) \in {"OVERSOLD", "NEUTRAL", "OVERBOUGHT"}

\* C17: migrating a legacy table replaces each NEUTRAL entry by three entries
\* (WEAK, NEUTRAL, STRONG) that agree on the other six fields and carry the
\* original's action-values, keeps every OVERSOLD and OVERBOUGHT entry with
\* its key and values, and adds or removes no other entry.
C17_MigrationExpandsNeutral ==
    (agentCall.op = "load" /\ LegacyTable(RowTable)) =>
      /\ agentCall.arg.status = "ok"
      /\ \A t \in DOMAIN RowTable :
           IF First(t.value) = "NEUTRAL"
           THEN \A b \in {"WEAK", "NEUTRAL", "STRONG"} :
                  /\ Rebucket(t.value, b) \in DOMAIN q_table
                  /\ q_table[Rebucket(t.value, b)] = RowTable[t]
           ELSE t.value \in DOMAIN q_table /\ q_table[t.value] = RowTable[t]
      /\ \A k \in DOMAIN q_table :
           \/ Str(k) \in DOMAIN RowTable /\ First(k) # "NEUTRAL"
           \/ /\ First(k) \in {"WEAK", "NEUTRAL", "STRONG"}
              /\ Str(Rebucket(k, "NEUTRAL")) \in DOMAIN RowTable

\* a legacy table with a NEUTRAL and an OVERSOLD entry was loaded
C17_Witness ==
    /\ agentCall.op = "load"
    /\ LegacyTable(RowTable)
    /\ \E t, u \in DOMAIN RowTable : First(t.value) = "NEUTRAL" /\ First(u.value) = "OVERSOLD"
    /\ Cardinality(DOMAIN RowTable) = 2
    /\ Cardinality(DOMAIN q_table) = 4

\* C18: saving an agent through save() and save_q_table and restoring it
\* through load_q_table and load() yields an agent with the same
\* learning_rate, discount_factor, exploration_rate, exploration_decay,
\* min_exploration, total_episodes and total_rewards.
C18_ParametersSurvivePersistence ==
    agentCall.op = "save" =>
      load(load_q_table(store, agentCall.arg.stock_id)[1]).agent = agent

\* C19: loading a snapshot in which some Q-table entries are corrupt (key
\* not parseable, or parseable but not a 7-field state tuple) skips exactly
\* those entries and returns an agent containing every well-formed entry; a
\* corrupt entry never makes the whole load fail.
C19_CorruptEntriesSkipped ==
    agentCall.op = "load" =>
      /\ agentCall.arg.status = "ok"
      /\ \A k \in DOMAIN q_table : WellFormedKey(k)
      /\ \A t \in DOMAIN RowTable : WellFormedText(t) => t.value \in DOMAIN q_table

\* the persisted total_episodes and exploration_rate of stock s
Persisted(st, s) == st[s].hyperparameters[1]

\* C11: in one settlement run, every stock with a persisted snapshot has its
\* persisted total_episodes grow by exactly 1 and its persisted epsilon decay
\* by exactly one step, whether or not it had an open position.
C11_OneEpisodePerSettlement ==
    [][agentCall'.op = "settle_trades" =>
         \A s \in Stocks : store[s] # NULL =>
           LET before == load(load_q_table(store, s)[1]).agent
           IN  /\ Persisted(store', s).total_episodes = before.total_episodes + 1
               /\ Persisted(store', s).exploration_rate
                    = finish_episode(before).exploration_rate]_vars

\* C12: the exploration_decay of the agent lies in [0.5, 0.999] in every
\* reachable state of the agent, whether it was constructed, loaded or set.
C12_DecayInRange ==
    agent.exploration_decay >= DecayFloor /\ agent.exploration_decay <= DecayCeiling

\* the quantity a BUY of stock s asks for in ledger tr
LotQuantity(tr, s) ==
    Min(LotSize, MAX_POSITION_SIZE - SumOver({i \in 1..Len(tr) : tr[i].stock_id = s /\ tr[i].status = "OPEN" /\ tr[i].action = "BUY"}, [i \in 1..Len(tr) |-> tr[i].quantity]))

\* C20: a decision cycle that chose BUY while lot quantity * price exceeds
\* the balance appends no trade, logs the decision with was_executed = FALSE
\* and passes reward 0 to the agent update.
C20_InsufficientFundsSkips ==
    [][(/\ agentCall'.op = "trade_single_stock"
        /\ agentCall'.arg.action = "BUY"
        /\ LotQuantity(trades, agentCall'.arg.stock_id) * agentCall'.arg.price
             > Balance(trades))
       => /\ trades' = trades
          /\ Len(decisions') = Len(decisions) + 1
          /\ decisions'[Len(decisions')].action = "BUY"
          /\ decisions'[Len(decisions')].was_executed = FALSE
          /\ agentCall'.arg.reward = 0]_vars

\* a cycle chose BUY with a lot that costs more than the balance
C20_Witness ==
    /\ agentCall.op = "trade_single_stock"
    /\ agentCall.arg.action = "BUY"
    /\ decisions # <<>>
    /\ decisions[Len(decisions)].was_executed = FALSE
    /\ LotQuantity(trades, agentCall.arg.stock_id) > 0
    /\ LotQuantity(trades, agentCall.arg.stock_id) * agentCall.arg.price > Balance(trades)

\* the decay the win share num / den of the closed trades calls for: 0.98
\* from 50% winners, 0.995 up to 30% winners, else 0.99
DecayForShare(num, den) ==
    IF num * 2 >= den THEN 9800 ELSE IF num * 10 <= 3 * den THEN 9950 ELSE 9900

\* C27: in every decision cycle the decay applied is 0.98 when at least 50%
\* of the relevant closed trades were winners, 0.995 when at most 30% were and
\* 0.99 otherwise, for the per-instrument win rate (a percentage) and for the
\* portfolio win rate of get_paper_bankroll (winning_trades of total_trades).
C27_DecayFollowsWinRate ==
    (agentCall.op = "trade_single_stock" /\ agentCall.arg.status = "ok") =>
      LET w == agentCall.arg.win_rate
      IN  agent.exploration_decay =
            IF w.stock # NULL THEN DecayForShare(w.stock[1][1], 100 * w.stock[1][2])
            ELSE DecayForShare(w.portfolio[1], w.portfolio[2])

\* the same for the cycles that use the per-instrument win rate
C27_DecayFollowsStockWinRate ==
    (agentCall.op = "trade_single_stock" /\ agentCall.arg.status = "ok"
       /\ agentCall.arg.win_rate.stock # NULL) =>
      agent.exploration_decay
        = DecayForShare(agentCall.arg.win_rate.stock[1][1],
                        100 * agentCall.arg.win_rate.stock[1][2])

\* the last step was a decision cycle that failed in get_current_state
CycleFailed == agentCall.op = "trade_single_stock" /\ agentCall.arg.status = "error"

\* C22: a decision cycle that finds fewer than 50 price bars or no RSI,
\* SMA_50 or VWAP indicator changes no persisted state: no trade is appended
\* or modified, no decision is logged and the snapshots are unchanged.
\* Nothing a later cycle reads is changed either, so the cycles of the other
\* stocks run after it as they would have run before it.
C22_InsufficientHistoryAborts ==
    [][(agentCall'.op = "trade_single_stock" /\ agentCall'.arg.status = "error")
         => /\ trades' = trades /\ decisions' = decisions /\ store' = store
            /\ UNCHANGED <<now, result, executed, agent, q_table, updates>>]_vars

\* a cycle failed for a stock that has a snapshot and an open position
C22_Witness ==
    /\ CycleFailed
    /\ store[agentCall.arg.stock_id] # NULL
    /\ \E i \in 1..Len(trades) :
         trades[i].stock_id = agentCall.arg.stock_id /\ trades[i].status = "OPEN"
    /\ decisions # <<>>

\* C21: a decision cycle whose BUY or SELL was not executed leaves the
\* Q-value of the (state, action) pair as it was before the cycle.
C21_NoLearningFromSkippedOrders ==
    (/\ agentCall.op = "trade_single_stock"
     /\ agentCall.arg.status = "ok"
     /\ agentCall.arg.action \in {"BUY", "SELL"}
     /\ ~agentCall.arg.was_executed)
    => agentCall.arg.q_after = agentCall.arg.q_before

\* C23: for every rsi in [0, 100] the discretizer yields exactly one RSI
\* bucket, with closed lower bounds: rsi < 30 OVERSOLD, 30 <= rsi < 45 WEAK,
\* 45 <= rsi < 55 NEUTRAL, 55 <= rsi < 70 STRONG, rsi >= 70 OVERBOUGHT.
C23_RsiBuckets ==
    (agentCall.op = "from_market_data" /\ agentCall.arg.status = "ok") =>
      LET rsi == agentCall.before.rsi
          bucket == agentCall.arg.state.rsi_category
      IN  /\ bucket \in {"OVERSOLD", "WEAK", "NEUTRAL", "STRONG", "OVERBOUGHT"}
          /\ bucket = "OVERSOLD" <=> rsi < 30
          /\ bucket = "WEAK" <=> (30 <= rsi /\ rsi < 45)
          /\ bucket = "NEUTRAL" <=> (45 <= rsi /\ rsi < 55)
          /\ bucket = "STRONG" <=> (55 <= rsi /\ rsi < 70)
          /\ bucket = "OVERBOUGHT" <=> rsi >= 70

\* rsi = 30 was discretized as WEAK
C23_Witness ==
    /\ agentCall.op = "from_market_data"
    /\ agentCall.arg.status = "ok"
    /\ agentCall.before.rsi = 30
    /\ agentCall.arg.state.rsi_category = "WEAK"

\* C24: for every combination of finite inputs from_market_data returns a
\* TradingState whose seven fields each hold a label of their set; no input
\* produces an error.
C24_DiscretizerTotal ==
    agentCall.op = "from_market_data" =>
      /\ agentCall.arg.status = "ok"
      /\ agentCall.arg.state.rsi_category \in {"OVERSOLD", "WEAK", "NEUTRAL", "STRONG", "OVERBOUGHT"}
      /\ agentCall.arg.state.ma_position \in {"ABOVE", "AT", "BELOW"}
      /\ agentCall.arg.state.vwap_position \in {"ABOVE", "AT", "BELOW"}
      /\ agentCall.arg.state.position_status \in {"LONG", "FLAT", "SHORT"}
      /\ agentCall.arg.state.price_momentum \in {"UP", "FLAT", "DOWN"}
      /\ agentCall.arg.state.cash_bucket \in {"HIGH", "MEDIUM", "LOW"}
      /\ agentCall.arg.state.exposure_bucket \in {"NONE", "LIGHT", "HEAVY", "OVEREXTENDED"}

\* C25: the reward of a HOLD taken while a long position is open, the price
\* is below the previous price and the unrealized P&L is negative is
\* strictly negative and within [-0.085, -0.005], for every cash and
\* exposure bucket.
C25_HoldPenalizedWhenPriceDrops ==
    (/\ agentCall.op = "calculate_reward"
     /\ agentCall.before.action = "HOLD"
     /\ agentCall.before.position_qty > 0
     /\ agentCall.before.prices[1] < agentCall.before.prices[2]
     /\ agentCall.before.unrealized_pnl < 0)
    => /\ agentCall.arg < 0
       /\ agentCall.arg >= 0 - (85 * RewardScale) \div 1000
       /\ agentCall.arg <= 0 - (5 * RewardScale) \div 1000

\* a HOLD with little cash, heavy exposure, a price halved and a large
\* unrealized loss was rewarded with the lower bound
C25_Witness ==
    /\ agentCall.op = "calculate_reward"
    /\ agentCall.before.action = "HOLD"
    /\ agentCall.before.position_qty > 0
    /\ agentCall.before.prices = <<50, 101>>
    /\ agentCall.before.unrealized_pnl = 0 - 1000
    /\ agentCall.before.cash_bucket = "LOW"
    /\ agentCall.before.exposure_bucket = "HEAVY"
    /\ agentCall.arg = 0 - (85 * RewardScale) \div 1000

\* C26: the reward of an executed SELL with realized_pnl > 0 and position
\* age <= the quick-exit threshold is realized_pnl + the quick-exit bonus
\* + 0.02 if cash is LOW + 0.02 if exposure is HEAVY or OVEREXTENDED, hence
\* greater than realized_pnl; no lingering penalty is subtracted.
C26_QuickExitBonus ==
    (/\ agentCall.op = "calculate_reward"
     /\ agentCall.before.action = "SELL"
     /\ agentCall.before.was_executed
     /\ agentCall.before.realized_pnl > 0
     /\ agentCall.before.position_age_minutes <= QUICK_EXIT_THRESHOLD_MINUTES)
    => /\ agentCall.arg = agentCall.before.realized_pnl * RewardScale
                           + (50 * RewardScale) \div 1000
                           + (IF agentCall.before.cash_bucket = "LOW"
                              THEN (20 * RewardScale) \div 1000 ELSE 0)
                           + (IF agentCall.before.exposure_bucket \in {"HEAVY", "OVEREXTENDED"}
                              THEN (20 * RewardScale) \div 1000 ELSE 0)
       /\ agentCall.arg > agentCall.before.realized_pnl * RewardScale

\* a SELL that realised 2 at the age of the threshold was rewarded 2.05
C26_Witness ==
    /\ agentCall.op = "calculate_reward"
    /\ agentCall.before.action = "SELL"
    /\ agentCall.before.was_executed
    /\ agentCall.before.realized_pnl = 2
    /\ agentCall.before.position_age_minutes = QUICK_EXIT_THRESHOLD_MINUTES
    /\ agentCall.before.cash_bucket = "HIGH"
    /\ agentCall.before.exposure_bucket = "NONE"
    /\ agentCall.arg = 2 * RewardScale + (50 * RewardScale) \div 1000

\* the last step was a decision cycle that ran to its end
CycleDone == agentCall.op = "trade_single_stock" /\ agentCall.arg.status = "ok"

\* the position field of a Q-table key
PositionField(k) == k.items[4]

\* C28: in runs of decision cycles and settlements, the state handed to
\* choose_action and the states handed to update_q_value never have
\* position_status = SHORT, and the open quantity of every stock is >= 0.
C28_NeverShort ==
    /\ \A s \in Stocks : OpenQuantity(trades, s) >= 0
    /\ \A pos \in get_active_positions(trades) : pos.quantity > 0
    /\ CycleDone =>
         /\ agentCall.arg.state.position_status \in {"LONG", "FLAT"}
         /\ \A k \in DOMAIN q_table : PositionField(k) \in {"LONG", "FLAT"}

\* a cycle ran with an open position after a settlement had closed an
\* earlier one
C28_Witness ==
    /\ CycleDone
    /\ agentCall.arg.state.position_status = "LONG"
    /\ \E i \in 1..Len(trades) : trades[i].strategy = "EOD_SETTLEMENT"
    /\ \E k \in DOMAIN q_table : PositionField(k) = "FLAT"

\* C29: after any sequence of decision cycles and settlements the open
\* quantity of each stock is at most MAX_POSITION_SIZE: a BUY is executed
\* only when the position is below the cap (and the cash suffices) and buys
\* min(5, cap - position) shares; otherwise it is skipped as not executed.
C29_PositionCap ==
    [][/\ \A s \in Stocks : OpenQuantity(trades', s) <= 25
       /\ (agentCall'.op = "trade_single_stock" /\ agentCall'.arg.status = "ok"
             /\ agentCall'.arg.action = "BUY")
          => LET s == agentCall'.arg.stock_id
                 position == OpenQuantity(trades, s)
                 lot == Min(5, 25 - position)
             IN  IF position < 25 /\ Balance(trades) >= lot * agentCall'.arg.price
                 THEN /\ agentCall'.arg.was_executed
                      /\ Len(trades') = Len(trades) + 1
                      /\ trades'[Len(trades')].action = "BUY"
                      /\ trades'[Len(trades')].quantity = lot
                      /\ OpenQuantity(trades', s) = position + lot
                 ELSE /\ ~agentCall'.arg.was_executed
                      /\ trades' = trades]_vars

\* a BUY was skipped at the cap although the cash would have bought a lot
C29_Witness ==
    /\ CycleDone
    /\ agentCall.arg.action = "BUY"
    /\ ~agentCall.arg.was_executed
    /\ OpenQuantity(trades, agentCall.arg.stock_id) = 25
    /\ Balance(trades) >= 5 * agentCall.arg.price

\* the quantities of the BUY rows and of the BUY orders as they were placed
BuyRowQuantities(tr) ==
    LET buys == SelectSeq(tr, LAMBDA r : r.action = "BUY")
    IN  [i \in 1..Len(buys) |-> buys[i].quantity]

\* C30: an executed decision-cycle SELL sells the whole open quantity of the
\* stock, which has no open quantity and no OPEN lot afterwards; a SELL
\* chosen with no open position is skipped and appends no trade; no BUY lot
\* is ever partially consumed.
C30_SellLiquidatesPosition ==
    [][/\ BuyRowQuantities(trades') = BuyRowQuantities(executed')
       /\ (agentCall'.op = "trade_single_stock" /\ agentCall'.arg.status = "ok"
             /\ agentCall'.arg.action = "SELL")
          => LET s == agentCall'.arg.stock_id
                 position == OpenQuantity(trades, s)
             IN  IF position > 0
                 THEN /\ agentCall'.arg.was_executed
                      /\ Len(trades') = Len(trades) + 1
                      /\ trades'[Len(trades')].action = "SELL"
                      /\ trades'[Len(trades')].quantity = position
                      /\ OpenQuantity(trades', s) = 0
                      /\ \A i \in 1..Len(trades') :
                           trades'[i].stock_id = s => trades'[i].status = "CLOSED"
                 ELSE /\ ~agentCall'.arg.was_executed
                      /\ trades' = trades]_vars

\* a SELL closed a position of several lots
C30_Witness ==
    /\ CycleDone
    /\ agentCall.arg.action = "SELL"
    /\ agentCall.arg.was_executed
    /\ result.op = "SELL"
    /\ result.quantity >= 2 * LotSize
    /\ Len(result.closed_trades) >= 2
    /\ OpenQuantity(trades, agentCall.arg.stock_id) = 0

-----------------------------------------------------------------------------
(* Properties of the result of a SELL, of the decision log and of failed   *)
(* updates                                                                 *)

\* C33: every trade id in the closed_trades of an accepted SELL is a BUY lot
\* whose status is CLOSED after that SELL; a lot that was partially consumed
\* and stays OPEN is not listed.
C33_ClosedTradesAreClosed ==
    (result.op \in {"SELL", "CLOSE"} /\ result.status = "ok")
      => \A k \in 1..Len(result.closed_trades) :
           /\ trades[result.closed_trades[k]].action = "BUY"
           /\ trades[result.closed_trades[k]].status = "CLOSED"

SameQValues(old, new) ==
    /\ \A k \in DOMAIN old : k \in DOMAIN new /\ new[k] = old[k]
    /\ \A k \in (DOMAIN new) \ (DOMAIN old) : \A a \in ActionSet : new[k][a] = 0

\* C32: when the reward / next-state / update step of a cycle fails after the
\* cycle inserted a trade, the trade stays in the ledger, the cycle goes on to
\* save the agent and return, and the saved snapshot of the stock has the
\* Q-values, epsilon and total_episodes the agent had when the cycle loaded it.
C32_FailedUpdateKeepsTrade ==
    [][LET c == agentCall.arg
           inserted == c.executed /\ c.update_failed
       IN  /\ (agentCall'.op = "update_q_value" /\ agentCall'.arg.executed
                 /\ agentCall'.arg.update_failed) =>
                /\ trades' = trades
                /\ Len(trades) = agentCall'.arg.started.trades + 1
                /\ trades[Len(trades)].action = agentCall'.arg.action
                /\ trades[Len(trades)].stock_id = agentCall'.arg.stock_id
           /\ (agentCall.op = "update_q_value" /\ inserted) =>
                LET was == load_or_create_agent(store, c.stock_id, DefaultEnvironment)
                    saved == load_or_create_agent(store', c.stock_id, DefaultEnvironment)
                IN  /\ agentCall'.op = "save_q_table"
                    /\ trades' = trades
                    /\ store'[c.stock_id] # NULL
                    /\ saved.status = "ok"
                    /\ SameQValues(was.q_table, saved.q_table)
                    /\ saved.agent.exploration_rate = was.agent.exploration_rate
                    /\ saved.agent.total_episodes = was.agent.total_episodes]_vars

\* a stock was bought in a cycle that learned from it; the next cycle sold
\* the position, its update failed, and the agent was saved
C32_Witness ==
    /\ agentCall.op = "save_q_table"
    /\ agentCall.arg.action = "SELL"
    /\ agentCall.arg.executed /\ agentCall.arg.update_failed
    /\ Len(trades) = 2 /\ trades[2].action = "SELL"
    /\ LET saved == load_or_create_agent(store, agentCall.arg.stock_id, DefaultEnvironment)
       IN  /\ saved.agent.total_episodes = 1
           /\ saved.agent.exploration_rate < RateScale
           /\ \E k \in DOMAIN saved.q_table : saved.q_table[k]["BUY"] # 0

\* the minutes since the last trade of stock s that is part of its open position
HeldMinutes(tr, s, at) ==
    IF OpenBuyIds(tr, s) = {} THEN 0
    ELSE at - MaxOf({tr[i].executed_at : i \in OpenBuyIds(tr, s)})

\* C34: an executed SELL of a decision cycle that realizes a loss on a
\* position held for at least LINGERING_THRESHOLD_MINUTES since its last trade
\* is rewarded realized_pnl minus LINGERING_PENALTY_PER_BLOCK for every
\* block of threshold / 3 minutes held, plus the cash and exposure
\* adjustments.
C34_LingeringPenalty ==
    [][(/\ agentCall'.op = "trade_single_stock" /\ agentCall'.arg.status = "ok"
        /\ agentCall'.arg.action = "SELL" /\ agentCall'.arg.was_executed
        /\ result'.realized_pnl < 0
        /\ HeldMinutes(trades, agentCall'.arg.stock_id, now) >= LINGERING_THRESHOLD_MINUTES)
       => LET c == agentCall'.arg
              age == HeldMinutes(trades, c.stock_id, now)
          IN  c.reward
                = result'.realized_pnl * RewardScale
                  - LINGERING_PENALTY_PER_BLOCK * (age \div (LINGERING_THRESHOLD_MINUTES \div 3))
                  + (IF c.state.cash_bucket = "LOW" THEN 20 ELSE 0)
                  + (IF c.state.exposure_bucket \in {"HEAVY", "OVEREXTENDED"} THEN 20 ELSE 0)]_vars

\* C36: for an agent whose table was built by get_q_value and update_q_value
\* on states of the 5-bucket schema, load(save(agent)) has the same set of
\* states with the same action-values as the agent that was saved.
C36_SaveLoadRoundTrip ==
    agentCall.op = "save" =>
      /\ load(save(agent, q_table)).status = "ok"
      /\ load(save(agent, q_table)).q_table = q_table

\* C37: after any sequence of accepted BUYs, accepted and rejected SELLs and
\* settlements, the quantities of the OPEN BUY lots of a stock sum to the
\* quantity bought minus the quantity sold, and every stored trade has a
\* quantity > 0.
C37_ShareConservation ==
    /\ \A s \in Stocks : OpenLotQty(trades, s) = BoughtQty(s) - SoldQty(s)
    /\ \A i \in 1..Len(trades) : trades[i].quantity > 0

\* a lot of two shares was sold in part and the rest closed by a settlement
C37_Witness ==
    /\ Len(trades) = 3
    /\ result.op = "CLOSE" /\ result.status = "ok"
    /\ trades[1].action = "BUY" /\ trades[1].status = "CLOSED"
    /\ trades[1].quantity < executed[1].quantity
    /\ trades[2].action = "SELL" /\ trades[3].action = "SELL"
    /\ OpenLotQty(trades, result.stock_id) = 0

\* C38: over any sequence of decision cycles and settlements of a stock, each
\* of which loads the agent from rl_model_states and saves it back, the
\* exploration rate stored for the stock never increases, whatever
\* min_exploration and exploration_decay the agent was created with.
C38_PersistedEpsilonNeverIncreases ==
    [][\A s \in Stocks :
         (store[s] # NULL /\ store'[s] # NULL) =>
           load_q_table(store', s)[1].exploration_rate[1]
             <= load_q_table(store, s)[1].exploration_rate[1]]_vars

\* a BUY row was appended in the step
BuyInserted ==
    /\ Len(trades') = Len(trades) + 1
    /\ trades'[Len(trades')].action = "BUY"

\* C39: in a sequential run of decision cycles and settlements at positive
\* prices the balance is never negative: a BUY is inserted only when the
\* balance covers its cost, and every other step leaves the balance or adds
\* to it.
C39_BalanceNeverNegative ==
    /\ [](Balance(trades) >= 0)
    /\ [][IF BuyInserted
          THEN /\ Balance(trades)
                    >= trades'[Len(trades')].quantity * trades'[Len(trades')].price
               /\ Balance(trades')
                    = Balance(trades)
                      - trades'[Len(trades')].quantity * trades'[Len(trades')].price
          ELSE Balance(trades') >= Balance(trades)]_vars

\* a position bought for most of the cash was closed by a settlement, after
\* a cycle had skipped a BUY that the balance did not cover
C39_Witness ==
    /\ agentCall.op = "settle_trades"
    /\ Len(trades) = 2
    /\ trades[1].action = "BUY"
    /\ 2 * trades[1].quantity * trades[1].price > StartingCash
    /\ trades[2].action = "SELL" /\ trades[2].strategy = "EOD_SETTLEMENT"
    /\ \E i \in 1..Len(decisions) : decisions[i].action = "BUY" /\ ~decisions[i].was_executed
    /\ Balance(trades) > 0

\* the quantities of the SELL rows stored for stock s
SoldRowsQty(tr, s) ==
    SumOver({i \in 1..Len(tr) : tr[i].stock_id = s /\ tr[i].action = "SELL"},
            [i \in 1..Len(tr) |-> tr[i].quantity])

\* C40: for every interleaving of two SELLs of one stock, each of which
\* reads the open lots, validates, updates the lots and inserts the SELL row,
\* no open lot is sold twice: the quantity sold of the stock never exceeds
\* the quantity bought.
C40_NoLotSoldTwice ==
    \A s \in Stocks : SoldRowsQty(trades, s) <= BoughtQty(s)

-----------------------------------------------------------------------------
(* Properties of the HTTP client *)

\* what holds of _make_request at every moment of a call
RequestBounded ==
    LET rq == agentCall.arg
    IN  /\ rq.requests <= MAX_RETRIES
        /\ rq.requests = Len(rq.log)
        /\ rq.status = "running" => rq.attempt < MAX_RETRIES
        /\ rq.status = "returned" => rq.log[Len(rq.log)].response = "data"
        /\ rq.status = "raised" => rq.raised # NULL
        /\ \A i \in 1..Len(rq.log) :
             rq.log[i].response = "429" =>
               /\ rq.log[i].wait = BACKOFF_BASE_SECONDS * (2 ^ rq.log[i].attempt)
               /\ (i > 1 /\ rq.log[i - 1].response = "429")
                    => rq.log[i].wait = 2 * rq.log[i - 1].wait

\* C35: _make_request terminates for every sequence of responses: it sends
\* at most MAX_RETRIES requests and then returns the data or raises; after
\* consecutive 429 responses it waits BACKOFF_BASE_SECONDS * 2^attempt, twice
\* as long each time.
C35_RequestTerminates ==
    /\ []RequestBounded
    /\ <>(agentCall.arg.status \in {"returned", "raised"})

\* three requests were answered 429: the call slept 1.5, 3 and 6 seconds
\* and raised
C35_Witness ==
    /\ agentCall.op = "_make_request"
    /\ agentCall.arg.status = "raised"
    /\ agentCall.arg.requests = MAX_RETRIES
    /\ \A i \in 1..MAX_RETRIES :
         /\ agentCall.arg.log[i].response = "429"
         /\ agentCall.arg.log[i].wait = BACKOFF_BASE_SECONDS * (2 ^ (i - 1))

====
